---- MODULE Spec2Model ----
(***************************************************************************)
(* Condition alerting, trend detection and correlation ranking of the      *)
(* climate-analytics repository.                                           *)
(*                                                                         *)
(*   src/src/analysis/alert_system.py          ClimateAlertSystem          *)
(*   src/src/analysis/correlation_analyzer.py  CorrelationAnalyzer         *)
(*                                                                         *)
(* Numbers are integers.  Temperatures, wind speeds and AQI values are     *)
(* whole units; correlation coefficients are hundredths (-100 .. 100).     *)
(* A value that Python holds as None (or NaN in a matrix) is the empty     *)
(* sequence << >>, a present number v is << v >>.  A dictionary is a       *)
(* function whose DOMAIN is its key set, so an absent key is a key outside *)
(* DOMAIN.  The least-squares slope is kept as an exact fraction           *)
(* << numerator, denominator >> with a positive denominator.               *)
(***************************************************************************)
EXTENDS Integers, Sequences, FiniteSets, TLC

VARIABLES
    thresholds,       \* ClimateAlertSystem.thresholds
    data,             \* the reading (dict) handed to the threshold evaluators
    air_alerts,       \* list returned by _analyze_air_quality
    weather_alerts,   \* list returned by _analyze_weather_conditions
    raised,           \* names of the calls that ended in an exception
    historical_data,  \* aqi_us column of the rows _get_historical_data returns
    trend_alerts,     \* list returned by _analyze_trends
    corr_matrix,      \* matrix handed to _find_strong_correlations
    strong_corrs,     \* list returned by _find_strong_correlations
    called,           \* names of the functions applied so far
    df,               \* frame handed to CorrelationAnalyzer.analyze_correlations
    p_values,         \* p-value scipy.stats.pearsonr reports for each factor
    results,          \* dict returned by analyze_correlations, stage by stage
    weather_correlations,  \* aqi_analysis['weather_correlations']
    cluster_analysis, \* dict returned by _perform_clustering
    storage,          \* what the SQLite database holds
    failed,           \* the queries that failed in the latest call of each function
    active_alerts,    \* ClimateAlertSystem.active_alerts
    returned,         \* list the latest analyze_current_conditions returned
    n_calls,          \* number of analyze_current_conditions calls so far
    corr_result,      \* dict the latest run_correlation_analysis returned
    config,           \* AutomationScheduler.config["notifications"]
    check,            \* what the latest run_alert_check saw and returned
    sent,             \* channels the latest run_alert_check notified over
    now,              \* datetime.now(), in seconds
    memory_cache,     \* SmartCache.memory_cache
    cache_metadata,   \* SmartCache.cache_metadata
    disk,             \* the <key>.cache files of SmartCache.cache_dir
    stored,           \* per key, the latest set call still in force
    got,              \* key, time and result of the latest get call
    aqi_value,        \* the AQI handed to the three bracketings
    brackets,         \* per bracketing applied, the bracket it chose
    argv,             \* the flags climate_analyzer.py was started with
    db_stats,         \* what check_database finds
    cli,              \* what the latest run of main did and exited with
    last_run,         \* the latest task call of the AutomationScheduler
    running,          \* AutomationScheduler.running
    jobs,             \* schedule.jobs
    loop,             \* where start() is, and the jobs run_pending holds
    trace,            \* the stop calls made and the jobs run after one
    threads,          \* per thread, where it is in its cache call
    lock,             \* the thread holding SmartCache.lock, 0 for none
    written_by,       \* per tier and key, the set call that wrote it
    calls             \* the calls made of the @cached functions

vars == << thresholds, data, air_alerts, weather_alerts, raised,
           historical_data, trend_alerts, corr_matrix, strong_corrs, called,
           df, p_values, results, weather_correlations, cluster_analysis,
           storage, failed, active_alerts, returned, n_calls, corr_result,
           config, check, sent,
           now, memory_cache, cache_metadata, disk, stored, got,
           aqi_value, brackets, argv, db_stats, cli, last_run,
           running, jobs, loop, trace,
           threads, lock, written_by, calls >>

evalVars  == << thresholds, data, air_alerts, weather_alerts, raised >>
trendVars == << historical_data, trend_alerts >>
corrVars  == << corr_matrix, strong_corrs >>
analysisVars == << df, p_values, results, weather_correlations,
                   cluster_analysis >>
systemVars == << storage, failed, active_alerts, returned, n_calls,
                 corr_result >>
notifyVars == << config, check, sent >>
cacheVars == << now, memory_cache, cache_metadata, disk, stored, got >>
restVars == << systemVars, notifyVars, cacheVars >>
bracketVars == << aqi_value, brackets >>
cliVars == << argv, db_stats, cli >>
taskVars == << last_run >>
schedVars == << running, jobs, loop, trace >>
raceVars == << threads, lock, written_by >>
wrapVars == << calls >>
lateVars == << bracketVars, cliVars, taskVars, schedVars, raceVars,
              wrapVars >>
otherVars == << analysisVars, restVars, lateVars >>

----------------------------------------------------------------------------
(* Values                                                                  *)

None == << >>

Some(v) == << v >>

IsNone(x) == x = None

Val(x) == x[1]

\* A column value that is a string, as SQLite keeps the text it is given
\* in a REAL or INTEGER column when the text is no number.
Text == << "n/a", "str" >>

IsText(x) == Len(x) = 2

IsNumber(x) == Len(x) = 1

Abs(n) == IF n < 0 THEN -n ELSE n

\* Python truth value of a dictionary entry: None and 0 are false.
Truthy(x) == IsText(x) \/ (~IsNone(x) /\ Val(x) # 0)

\* "k in data"
HasKey(d, k) == k \in DOMAIN d

\* AlertLevel, in declaration order.
AlertLevel == << "info", "warning", "critical", "emergency" >>

LevelRank(l) == CHOOSE i \in 1..Len(AlertLevel) : AlertLevel[i] = l

AlertType == { "air_quality", "temperature", "humidity", "wind", "pressure",
               "trend_anomaly" }

\* Alert(...): the fields the evaluation decides.  id is the prefix of the
\* generated id (the suffix is the wall-clock second).
Alert(id, type, level, value, threshold) ==
    [ id |-> id, alert_type |-> type, level |-> level,
      value |-> value, threshold |-> threshold ]

----------------------------------------------------------------------------
(* Configuration                                                           *)

DefaultThresholds ==
    [ aqi_moderate            |-> 51,
      aqi_unhealthy_sensitive |-> 101,
      aqi_unhealthy           |-> 151,
      aqi_very_unhealthy      |-> 201,
      aqi_hazardous           |-> 301,
      temp_extreme_low        |-> -10,
      temp_extreme_high       |-> 40,
      humidity_very_low       |-> 20,
      humidity_very_high      |-> 90,
      wind_strong             |-> 15,
      wind_extreme            |-> 25,
      pressure_very_low       |-> 980,
      pressure_very_high      |-> 1030 ]

\* thresholds is a plain mutable mapping; the temperature bounds are the
\* ones a deployment overrides.
TempHighConfigs == { 40, 0 }

TempLowConfigs == { -10, 22 }

ThresholdConfigs ==
    { [ DefaultThresholds EXCEPT !.temp_extreme_high = h, !.temp_extreme_low = l ] :
        h \in TempHighConfigs, l \in TempLowConfigs }

----------------------------------------------------------------------------
(* Readings                                                                *)

AqiInputs == { 0, 1, 50, 51, 100, 101, 150, 151, 200, 201, 300, 301, 320 }

TempInputs == { -15, -11, -10, -9, 0, 22, 39, 40, 42, 45 }

WindInputs == { 0, 14, 15, 24, 25, 30 }

Field(inputs) == { Some(v) : v \in inputs } \cup { None }

MetricKeys == { "aqi_us", "temperature", "wind_speed" }

FieldOf(k) ==
    IF k = "aqi_us" THEN Field(AqiInputs)
    ELSE IF k = "temperature" THEN Field(TempInputs)
    ELSE Field(WindInputs)

\* Every dictionary over a subset of the metric keys: a metric is a number,
\* None, or has no key at all.
Readings ==
    UNION { { d \in [ K -> Field(AqiInputs \cup TempInputs \cup WindInputs) ] :
                \A k \in K : d[k] \in FieldOf(k) } : K \in SUBSET MetricKeys }

----------------------------------------------------------------------------
(* Threshold evaluator                                                     *)

\* What a call produces: the list it returns, or the exception that left it.
Returned(alerts) == [ alerts |-> alerts, exc |-> "none" ]

Raised(e) == [ alerts |-> << >>, exc |-> e ]

\* Variant: the lowest bracket tested with > instead of >=.
aqi_brackets_strict_lowest(th, aqi_us) ==
    IF ~IsNumber(aqi_us) THEN Raised("TypeError")
    ELSE LET aqi == Val(aqi_us) IN
         IF aqi >= th.aqi_hazardous
         THEN Returned(<< Alert("aqi_hazardous", "air_quality", "emergency",
                                aqi, th.aqi_hazardous) >>)
         ELSE IF aqi >= th.aqi_very_unhealthy
         THEN Returned(<< Alert("aqi_very_unhealthy", "air_quality", "critical",
                                aqi, th.aqi_very_unhealthy) >>)
         ELSE IF aqi >= th.aqi_unhealthy
         THEN Returned(<< Alert("aqi_unhealthy", "air_quality", "critical",
                                aqi, th.aqi_unhealthy) >>)
         ELSE IF aqi >= th.aqi_unhealthy_sensitive
         THEN Returned(<< Alert("aqi_unhealthy_sensitive", "air_quality", "warning",
                                aqi, th.aqi_unhealthy_sensitive) >>)
         ELSE IF aqi > th.aqi_moderate
         THEN Returned(<< Alert("aqi_moderate", "air_quality", "info",
                                aqi, th.aqi_moderate) >>)
         ELSE Returned(<< >>)

\* Variant: five independent ifs instead of one if/elif chain, so every
\* bracket the AQI reaches appends its alert.
aqi_brackets_all_crossed(th, aqi_us) ==
    IF ~IsNumber(aqi_us) THEN Raised("TypeError")
    ELSE LET aqi == Val(aqi_us) IN
         Returned(
           (IF aqi >= th.aqi_hazardous
            THEN << Alert("aqi_hazardous", "air_quality", "emergency",
                          aqi, th.aqi_hazardous) >> ELSE << >>)
           \o (IF aqi >= th.aqi_very_unhealthy
            THEN << Alert("aqi_very_unhealthy", "air_quality", "critical",
                          aqi, th.aqi_very_unhealthy) >> ELSE << >>)
           \o (IF aqi >= th.aqi_unhealthy
            THEN << Alert("aqi_unhealthy", "air_quality", "critical",
                          aqi, th.aqi_unhealthy) >> ELSE << >>)
           \o (IF aqi >= th.aqi_unhealthy_sensitive
            THEN << Alert("aqi_unhealthy_sensitive", "air_quality", "warning",
                          aqi, th.aqi_unhealthy_sensitive) >> ELSE << >>)
           \o (IF aqi >= th.aqi_moderate
            THEN << Alert("aqi_moderate", "air_quality", "info",
                          aqi, th.aqi_moderate) >> ELSE << >>))

\* Variant: the levels of the 151 and 201 brackets given as critical and
\* warning.
aqi_brackets_levels_mixed(th, aqi_us) ==
    IF ~IsNumber(aqi_us) THEN Raised("TypeError")
    ELSE LET aqi == Val(aqi_us) IN
         IF aqi >= th.aqi_hazardous
         THEN Returned(<< Alert("aqi_hazardous", "air_quality", "emergency",
                                aqi, th.aqi_hazardous) >>)
         ELSE IF aqi >= th.aqi_very_unhealthy
         THEN Returned(<< Alert("aqi_very_unhealthy", "air_quality", "warning",
                                aqi, th.aqi_very_unhealthy) >>)
         ELSE IF aqi >= th.aqi_unhealthy
         THEN Returned(<< Alert("aqi_unhealthy", "air_quality", "critical",
                                aqi, th.aqi_unhealthy) >>)
         ELSE IF aqi >= th.aqi_unhealthy_sensitive
         THEN Returned(<< Alert("aqi_unhealthy_sensitive", "air_quality", "warning",
                                aqi, th.aqi_unhealthy_sensitive) >>)
         ELSE IF aqi >= th.aqi_moderate
         THEN Returned(<< Alert("aqi_moderate", "air_quality", "info",
                                aqi, th.aqi_moderate) >>)
         ELSE Returned(<< >>)

\* The if/elif chain of _analyze_air_quality, from the highest bracket down.
\* Comparing None with a number raises TypeError.
aqi_brackets(th, aqi_us) ==
    IF ~IsNumber(aqi_us) THEN Raised("TypeError")
    ELSE LET aqi == Val(aqi_us) IN
         IF aqi >= th.aqi_hazardous
         THEN Returned(<< Alert("aqi_hazardous", "air_quality", "emergency",
                                aqi, th.aqi_hazardous) >>)
         ELSE IF aqi >= th.aqi_very_unhealthy
         THEN Returned(<< Alert("aqi_very_unhealthy", "air_quality", "critical",
                                aqi, th.aqi_very_unhealthy) >>)
         ELSE IF aqi >= th.aqi_unhealthy
         THEN Returned(<< Alert("aqi_unhealthy", "air_quality", "critical",
                                aqi, th.aqi_unhealthy) >>)
         ELSE IF aqi >= th.aqi_unhealthy_sensitive
         THEN Returned(<< Alert("aqi_unhealthy_sensitive", "air_quality", "warning",
                                aqi, th.aqi_unhealthy_sensitive) >>)
         ELSE IF aqi >= th.aqi_moderate
         THEN Returned(<< Alert("aqi_moderate", "air_quality", "info",
                                aqi, th.aqi_moderate) >>)
         ELSE Returned(<< >>)

\* _analyze_air_quality: return early unless aqi_us is present and truthy.
analyze_air_quality(th, d) ==
    IF ~HasKey(d, "aqi_us") \/ ~Truthy(d["aqi_us"])
    THEN Returned(<< >>)
    ELSE aqi_brackets(th, d["aqi_us"])

\* Variant: two independent ifs, so both alerts can be appended.
temp_checks_both(th, temperature) ==
    IF ~IsNumber(temperature) THEN Raised("TypeError")
    ELSE LET temp == Val(temperature) IN
         Returned(
           (IF temp >= th.temp_extreme_high
            THEN << Alert("temp_high", "temperature", "warning",
                          temp, th.temp_extreme_high) >> ELSE << >>)
           \o (IF temp <= th.temp_extreme_low
            THEN << Alert("temp_low", "temperature", "warning",
                          temp, th.temp_extreme_low) >> ELSE << >>))

\* Variant: strict comparisons, so a temperature equal to a bound is let
\* through.
temp_checks_strict(th, temperature) ==
    IF ~IsNumber(temperature) THEN Raised("TypeError")
    ELSE LET temp == Val(temperature) IN
         IF temp > th.temp_extreme_high
         THEN Returned(<< Alert("temp_high", "temperature", "warning",
                                temp, th.temp_extreme_high) >>)
         ELSE IF temp < th.temp_extreme_low
         THEN Returned(<< Alert("temp_low", "temperature", "warning",
                                temp, th.temp_extreme_low) >>)
         ELSE Returned(<< >>)

\* The two temperature comparisons (if / elif).
temp_checks(th, temperature) ==
    IF ~IsNumber(temperature) THEN Raised("TypeError")
    ELSE LET temp == Val(temperature) IN
         IF temp >= th.temp_extreme_high
         THEN Returned(<< Alert("temp_high", "temperature", "warning",
                                temp, th.temp_extreme_high) >>)
         ELSE IF temp <= th.temp_extreme_low
         THEN Returned(<< Alert("temp_low", "temperature", "warning",
                                temp, th.temp_extreme_low) >>)
         ELSE Returned(<< >>)

\* Variant: the guard tests the key only, not "is not None".
temperature_block_key_only(th, d) ==
    IF HasKey(d, "temperature")
    THEN temp_checks(th, d["temperature"])
    ELSE Returned(<< >>)

\* Temperature block of _analyze_weather_conditions.
temperature_block(th, d) ==
    IF HasKey(d, "temperature") /\ ~IsNone(d["temperature"])
    THEN temp_checks(th, d["temperature"])
    ELSE Returned(<< >>)

\* Variant: the lower threshold tested first.
wind_checks_strong_first(th, wind_speed) ==
    IF ~IsNumber(wind_speed) THEN Raised("TypeError")
    ELSE LET wind == Val(wind_speed) IN
         IF wind >= th.wind_strong
         THEN Returned(<< Alert("wind_strong", "wind", "warning",
                                wind, th.wind_strong) >>)
         ELSE IF wind >= th.wind_extreme
         THEN Returned(<< Alert("wind_extreme", "wind", "critical",
                                wind, th.wind_extreme) >>)
         ELSE Returned(<< >>)

\* The two wind comparisons (if / elif), the higher threshold first.
wind_checks(th, wind_speed) ==
    IF ~IsNumber(wind_speed) THEN Raised("TypeError")
    ELSE LET wind == Val(wind_speed) IN
         IF wind >= th.wind_extreme
         THEN Returned(<< Alert("wind_extreme", "wind", "critical",
                                wind, th.wind_extreme) >>)
         ELSE IF wind >= th.wind_strong
         THEN Returned(<< Alert("wind_strong", "wind", "warning",
                                wind, th.wind_strong) >>)
         ELSE Returned(<< >>)

\* Wind block of _analyze_weather_conditions.
wind_block(th, d) ==
    IF HasKey(d, "wind_speed") /\ ~IsNone(d["wind_speed"])
    THEN wind_checks(th, d["wind_speed"])
    ELSE Returned(<< >>)

\* _analyze_weather_conditions: the temperature block, then the wind block,
\* appending to one list.  An exception in a block leaves the function.
analyze_weather_conditions(th, d) ==
    LET t == temperature_block(th, d)
        w == wind_block(th, d)
    IN  IF t.exc # "none" THEN t
        ELSE IF w.exc # "none" THEN w
        ELSE Returned(t.alerts \o w.alerts)

----------------------------------------------------------------------------
(* Specification of the threshold evaluator: the configuration and the     *)
(* reading are drawn at the start, the two evaluators are applied to them. *)

NoMatrix == [ columns |-> << >>, values |-> << >> ]

\* A frame is its set of numeric columns and its rows.  Rows are counted by
\* null pattern: the pattern of a row is the set of columns that are null
\* in it, and rows |-> [pattern |-> how many rows have it].
NullPatterns == SUBSET { "aqi_us", "temperature" }

\* A frame without columns or rows, and the empty dict.
NoFrame == [ columns |-> {}, rows |-> [ pat \in NullPatterns |-> 0 ] ]
NoDict == << >>

\* The correlation analyzer has not been handed anything.
AnalysisIdle ==
    /\ df = NoFrame
    /\ p_values = NoDict
    /\ results = NoDict
    /\ weather_correlations = NoDict
    /\ cluster_analysis = NoDict

\* A database without rows.
NoStorage ==
    [ row |-> << >>, history |-> << >>, frame |-> NoFrame,
      weather_records |-> 0 ]

\* No alert system has analysed anything.
SystemIdle ==
    /\ storage = NoStorage
    /\ failed = {}
    /\ active_alerts = << >>
    /\ returned = << >>
    /\ n_calls = 0
    /\ corr_result = NoDict

\* default_config["notifications"]: everything disabled.
DefaultNotifications ==
    [ enabled |-> FALSE, webhook |-> FALSE, email |-> FALSE ]

NoCheck ==
    [ outcome |-> "none", marker |-> FALSE, produced |-> << >>,
      result |-> FALSE ]

\* No scheduler has checked anything.
NotifyIdle ==
    /\ config = DefaultNotifications
    /\ check = NoCheck
    /\ sent = {}

NoGet == [ key |-> "", value |-> << >>, tier |-> "miss" ]

\* An empty cache at time 0.
CacheIdle ==
    /\ now = 0
    /\ memory_cache = NoDict
    /\ cache_metadata = NoDict
    /\ disk = NoDict
    /\ stored = NoDict
    /\ got = NoGet

RestIdle == SystemIdle /\ NotifyIdle /\ CacheIdle

BracketIdle ==
    /\ aqi_value = 0
    /\ brackets = NoDict

CliIdle ==
    /\ argv = NoDict
    /\ db_stats = NoDict
    /\ cli = NoDict

TaskIdle == last_run = NoDict

SchedIdle ==
    /\ running = FALSE
    /\ jobs = {}
    /\ loop = NoDict
    /\ trace = NoDict

RaceIdle ==
    /\ threads = NoDict
    /\ lock = 0
    /\ written_by = NoDict

WrapIdle == calls = NoDict

LateIdle ==
    /\ BracketIdle
    /\ CliIdle
    /\ TaskIdle
    /\ SchedIdle
    /\ RaceIdle
    /\ WrapIdle

OthersIdle == AnalysisIdle /\ RestIdle /\ LateIdle

Init ==
    /\ thresholds \in ThresholdConfigs
    /\ data \in Readings
    /\ air_alerts = << >>
    /\ weather_alerts = << >>
    /\ raised = {}
    /\ historical_data = << >>
    /\ trend_alerts = << >>
    /\ corr_matrix = NoMatrix
    /\ strong_corrs = << >>
    /\ called = {}
    /\ OthersIdle

\* A call of _analyze_air_quality(data).
AnalyzeAirQuality ==
    /\ "_analyze_air_quality" \notin called
    /\ LET r == analyze_air_quality(thresholds, data) IN
         /\ air_alerts' = r.alerts
         /\ raised' = IF r.exc = "none" THEN raised
                      ELSE raised \cup { "_analyze_air_quality" }
    /\ called' = called \cup { "_analyze_air_quality" }
    /\ UNCHANGED << thresholds, data, weather_alerts, trendVars, corrVars, otherVars >>

\* A call of _analyze_weather_conditions(data).
AnalyzeWeatherConditions ==
    /\ "_analyze_weather_conditions" \notin called
    /\ LET r == analyze_weather_conditions(thresholds, data) IN
         /\ weather_alerts' = r.alerts
         /\ raised' = IF r.exc = "none" THEN raised
                      ELSE raised \cup { "_analyze_weather_conditions" }
    /\ called' = called \cup { "_analyze_weather_conditions" }
    /\ UNCHANGED << thresholds, data, air_alerts, trendVars, corrVars, otherVars >>

Next ==
    \/ AnalyzeAirQuality
    \/ AnalyzeWeatherConditions

Spec == Init /\ [][Next]_vars

----------------------------------------------------------------------------
(* Properties of the threshold evaluator                                   *)

AirDone == "_analyze_air_quality" \in called

WeatherDone == "_analyze_weather_conditions" \in called

\* The metric k of the reading is a number (present and not None).
Carries(k) == HasKey(data, k) /\ ~IsNone(data[k])

Metric(k) == Val(data[k])

OfType(alerts, type) == SelectSeq(alerts, LAMBDA a : a.alert_type = type)

WithId(alerts, id) == SelectSeq(alerts, LAMBDA a : a.id = id)

TempAlerts == OfType(weather_alerts, "temperature")

WindAlerts == OfType(weather_alerts, "wind")

CutPoints == { 51, 101, 151, 201, 301 }

Max(S) == CHOOSE m \in S : \A x \in S : x <= m

\* C1 (as stated): every AQI value carried by a reading produces exactly one
\* air-quality alert.
C1_ExactlyOneForEveryAqi ==
    (AirDone /\ Carries("aqi_us")) => Len(OfType(air_alerts, "air_quality")) = 1

\* C1 (amended): an AQI value of 51 or more produces exactly one air-quality
\* alert, an AQI value below 51 produces none.
C1_ExactlyOneFrom51 ==
    (AirDone /\ Carries("aqi_us")) =>
        /\ Metric("aqi_us") >= 51 => Len(OfType(air_alerts, "air_quality")) = 1
        /\ Metric("aqi_us") < 51 => air_alerts = << >>

C1_Witness ==
    /\ AirDone /\ Carries("aqi_us")
    /\ Metric("aqi_us") = 51
    /\ Len(air_alerts) = 1

\* C2: at most one alert is emitted, it is the alert of the highest of the
\* cut points 51, 101, 151, 201, 301 that the AQI reaches (its threshold is
\* the largest cut point <= AQI), and an AQI >= 301 yields an air_quality
\* alert of severity emergency.
C2_HighestBracketOnly ==
    AirDone =>
        /\ Len(air_alerts) <= 1
        /\ Len(air_alerts) = 1 =>
              /\ Carries("aqi_us")
              /\ air_alerts[1].alert_type = "air_quality"
              /\ air_alerts[1].value = Metric("aqi_us")
              /\ air_alerts[1].threshold =
                    Max({ c \in CutPoints : c <= Metric("aqi_us") })
        /\ (Carries("aqi_us") /\ Metric("aqi_us") >= 51) => Len(air_alerts) = 1
        /\ (Carries("aqi_us") /\ Metric("aqi_us") >= 301) =>
              /\ Len(air_alerts) = 1
              /\ air_alerts[1].alert_type = "air_quality"
              /\ air_alerts[1].level = "emergency"

C2_Witness ==
    /\ AirDone /\ Carries("aqi_us")
    /\ Metric("aqi_us") = 320
    /\ Len(air_alerts) = 1
    /\ air_alerts[1].threshold = 301
    /\ air_alerts[1].level = "emergency"

\* The reading with its AQI replaced by v.
WithAqi(v) == [ k \in DOMAIN data \cup { "aqi_us" } |->
                  IF k = "aqi_us" THEN Some(v) ELSE data[k] ]

\* C3: severity is non-decreasing in the AQI value: whenever this reading
\* and a reading with a higher AQI both produce an alert, the higher AQI's
\* severity is at least this one's, under info < warning < critical < emergency.
C3_SeverityMonotone ==
    (AirDone /\ Carries("aqi_us") /\ air_alerts # << >>) =>
        \A v2 \in AqiInputs :
            LET other == analyze_air_quality(thresholds, WithAqi(v2)).alerts IN
            (Metric("aqi_us") <= v2 /\ other # << >>) =>
                LevelRank(air_alerts[1].level) <= LevelRank(other[1].level)

C3_Witness ==
    /\ AirDone /\ Carries("aqi_us")
    /\ Metric("aqi_us") = 151
    /\ air_alerts # << >>
    /\ air_alerts[1].level = "critical"

\* C4 (as stated): the two temperature checks are independent: the high
\* alert fires iff temperature >= temp_extreme_high and the low alert fires
\* iff temperature <= temp_extreme_low, each with severity warning.
C4_TempChecksIndependent ==
    (WeatherDone /\ Carries("temperature")) =>
        /\ (WithId(weather_alerts, "temp_high") # << >>)
              <=> (Metric("temperature") >= thresholds.temp_extreme_high)
        /\ (WithId(weather_alerts, "temp_low") # << >>)
              <=> (Metric("temperature") <= thresholds.temp_extreme_low)
        /\ \A i \in 1..Len(TempAlerts) : TempAlerts[i].level = "warning"

\* C4 (amended): the high alert fires iff temperature >= temp_extreme_high;
\* the low alert fires iff temperature <= temp_extreme_low and temperature <
\* temp_extreme_high; so one or none fires for a reading, never both; each
\* has severity warning.
C4_TempLowOnlyBelowHigh ==
    (WeatherDone /\ Carries("temperature")) =>
        /\ (WithId(weather_alerts, "temp_high") # << >>)
              <=> (Metric("temperature") >= thresholds.temp_extreme_high)
        /\ (WithId(weather_alerts, "temp_low") # << >>)
              <=> /\ Metric("temperature") <= thresholds.temp_extreme_low
                  /\ Metric("temperature") < thresholds.temp_extreme_high
        /\ Len(TempAlerts) <= 1
        /\ \A i \in 1..Len(TempAlerts) : TempAlerts[i].level = "warning"

C4_Witness ==
    /\ WeatherDone /\ Carries("temperature")
    /\ Metric("temperature") >= thresholds.temp_extreme_high
    /\ Metric("temperature") <= thresholds.temp_extreme_low
    /\ Len(TempAlerts) = 1
    /\ TempAlerts[1].id = "temp_high"

\* C5: with the default thresholds (high 40, low -10) a temperature t gives
\* exactly one temperature alert, a warning with threshold 40, when t >= 40;
\* exactly one, a warning with threshold -10, when t <= -10; none in between.
C5_DefaultTemperature ==
    (WeatherDone /\ Carries("temperature") /\ thresholds = DefaultThresholds) =>
        LET t == Metric("temperature") IN
        /\ t >= 40 => /\ Len(TempAlerts) = 1
                      /\ TempAlerts[1].level = "warning"
                      /\ TempAlerts[1].threshold = 40
        /\ t <= -10 => /\ Len(TempAlerts) = 1
                       /\ TempAlerts[1].level = "warning"
                       /\ TempAlerts[1].threshold = -10
        /\ (-10 < t /\ t < 40) => TempAlerts = << >>

C5_Witness ==
    /\ WeatherDone /\ Carries("temperature") /\ thresholds = DefaultThresholds
    /\ Metric("temperature") = 40
    /\ Len(TempAlerts) = 1
    /\ TempAlerts[1].threshold = 40

\* C6: at most one wind alert is produced: only "extreme" when w >= 25,
\* only "strong" when 15 <= w < 25, none when w < 15.
C6_OneWindAlert ==
    (WeatherDone /\ Carries("wind_speed")) =>
        LET w == Metric("wind_speed") IN
        /\ Len(WindAlerts) <= 1
        /\ w >= 25 => /\ Len(WindAlerts) = 1
                      /\ WindAlerts[1].id = "wind_extreme"
        /\ (15 <= w /\ w < 25) => /\ Len(WindAlerts) = 1
                                  /\ WindAlerts[1].id = "wind_strong"
        /\ w < 15 => WindAlerts = << >>

C6_Witness ==
    /\ WeatherDone /\ Carries("wind_speed")
    /\ Metric("wind_speed") = 30
    /\ Len(WindAlerts) = 1
    /\ WindAlerts[1].id = "wind_extreme"

\* The reading restricted to the metrics that are numbers.
Present == [ k \in { m \in DOMAIN data : ~IsNone(data[m]) } |-> data[k] ]

\* C7: a metric that is absent or None produces no alert for that metric
\* and no error, and the metrics that are present are evaluated exactly as
\* in the reading without the missing ones.
C7_MissingMetricSkipped ==
    /\ raised = {}
    /\ AirDone =>
          /\ ~Carries("aqi_us") => air_alerts = << >>
          /\ air_alerts = analyze_air_quality(thresholds, Present).alerts
    /\ WeatherDone =>
          /\ ~Carries("temperature") => TempAlerts = << >>
          /\ ~Carries("wind_speed") => WindAlerts = << >>
          /\ weather_alerts = analyze_weather_conditions(thresholds, Present).alerts
          /\ (~Carries("temperature") /\ Carries("wind_speed")
                /\ Metric("wind_speed") >= thresholds.wind_strong)
                => Len(weather_alerts) = 1
          /\ (~Carries("wind_speed") /\ Carries("temperature")
                /\ Metric("temperature") >= thresholds.temp_extreme_high)
                => Len(weather_alerts) = 1

C7_Witness ==
    /\ AirDone /\ WeatherDone
    /\ HasKey(data, "temperature") /\ IsNone(data["temperature"])
    /\ ~HasKey(data, "aqi_us")
    /\ Carries("wind_speed") /\ Metric("wind_speed") = 30
    /\ Len(weather_alerts) = 1
    /\ air_alerts = << >>
    /\ raised = {}

----------------------------------------------------------------------------
(* Trend detector                                                          *)

\* Rows the 7-day query returns at most.
MaxRows == 6

TrendInputs == { 10, 14, 18, 40 }

\* The documented series that must raise the trend alert.
ExampleSeries == << 10, 12, 14, 16, 18, 40 >>

\* The aqi_us column of the rows: the LEFT JOIN leaves None where a row has
\* no air-quality measurement.
Histories(n) ==
    [ 1..n -> Field(TrendInputs) ]
        \cup { h \in { [ i \in 1..Len(ExampleSeries) |-> Some(ExampleSeries[i]) ] } :
                 Len(h) = n }

\* Series.dropna(): the numbers of the column, in order.
RECURSIVE dropna(_)
dropna(col) ==
    IF col = << >> THEN << >>
    ELSE IF IsNone(Head(col)) THEN dropna(Tail(col))
    ELSE << Val(Head(col)) >> \o dropna(Tail(col))

\* Sum of the numbers of a sequence.
RECURSIVE Sum(_)
Sum(terms) == IF terms = << >> THEN 0 ELSE Head(terms) + Sum(Tail(terms))

\* np.polyfit(np.arange(n), series, 1)[0]: the least-squares slope against
\* the positions 0 .. n-1, from the normal equations, as << num, den >>.
polyfit_slope(series) ==
    LET n   == Len(series)
        Sx  == Sum([ i \in 1..n |-> i - 1 ])
        Sy  == Sum(series)
        Sxx == Sum([ i \in 1..n |-> (i - 1) * (i - 1) ])
        Sxy == Sum([ i \in 1..n |-> (i - 1) * series[i] ])
    IN  << n * Sxy - Sx * Sy, n * Sxx - Sx * Sx >>

\* Variant: the slope itself, not multiplied by the series length.
calculate_trend_slope_only(series) ==
    IF Len(series) < 2 THEN << 0, 1 >>
    ELSE polyfit_slope(series)

\* _calculate_trend: 0 for fewer than 2 points, else slope * len(series).
calculate_trend(series) ==
    IF Len(series) < 2 THEN << 0, 1 >>
    ELSE LET z == polyfit_slope(series) IN << z[1] * Len(series), z[2] >>

\* q > k for a fraction q with a positive denominator.
FracGt(q, k) == q[1] > k * q[2]

\* _analyze_trends: nothing for fewer than 5 rows, else the AQI trend of the
\* non-null values against the fixed limit 20.
analyze_trends(rows) ==
    IF Len(rows) < 5 THEN << >>
    ELSE LET aqi_trend == calculate_trend(dropna(rows)) IN
         IF FracGt(aqi_trend, 20)
         THEN << Alert("aqi_trend", "trend_anomaly", "warning", aqi_trend, 20) >>
         ELSE << >>

InitTrend ==
    /\ thresholds = DefaultThresholds
    /\ data = << >>
    /\ air_alerts = << >>
    /\ weather_alerts = << >>
    /\ raised = {}
    /\ \E n \in 0..MaxRows : historical_data \in Histories(n)
    /\ trend_alerts = << >>
    /\ corr_matrix = NoMatrix
    /\ strong_corrs = << >>
    /\ called = {}
    /\ OthersIdle

\* A call of _analyze_trends.
AnalyzeTrends ==
    /\ "_analyze_trends" \notin called
    /\ trend_alerts' = analyze_trends(historical_data)
    /\ called' = called \cup { "_analyze_trends" }
    /\ UNCHANGED << evalVars, historical_data, corrVars, otherVars >>

NextTrend == AnalyzeTrends

SpecTrend == InitTrend /\ [][NextTrend]_vars

----------------------------------------------------------------------------
(* Properties of the trend detector                                        *)

TrendDone == "_analyze_trends" \in called

\* The series that is fitted.
Fitted == dropna(historical_data)

\* C8: whenever the fitted AQI series has fewer than 5 points, no
\* trend-anomaly alert fires.
C8_NoTrendBelowFivePoints ==
    (TrendDone /\ Len(Fitted) < 5) => trend_alerts = << >>

\* Least-squares slope in centred form, scaled by n^2:
\* sum (n x - Sx)(n y - Sy) over sum (n x - Sx)^2, x the positions 0 .. n-1.
CentredNum(series) ==
    LET n  == Len(series)
        Sx == Sum([ i \in 1..n |-> i - 1 ])
        Sy == Sum(series)
    IN  Sum([ i \in 1..n |-> (n * (i - 1) - Sx) * (n * series[i] - Sy) ])

CentredDen(series) ==
    LET n  == Len(series)
        Sx == Sum([ i \in 1..n |-> i - 1 ])
    IN  Sum([ i \in 1..n |-> (n * (i - 1) - Sx) * (n * (i - 1) - Sx) ])

NonIncreasing(series) ==
    \A i \in 1..(Len(series) - 1) : series[i + 1] <= series[i]

\* C9: for an AQI series of n >= 5 points the drift is the least-squares
\* slope against the positions 0 .. n-1 times n; exactly one trend-anomaly
\* alert (warning, threshold 20, carrying the drift) is emitted iff the
\* drift is strictly greater than 20, none otherwise, in particular none
\* for a flat or decreasing series; [10,12,14,16,18,40] fires.
C9_DriftAbove20 ==
    (TrendDone /\ Len(Fitted) >= 5) =>
        LET n     == Len(Fitted)
            above == n * CentredNum(Fitted) > 20 * CentredDen(Fitted)
        IN  /\ above => /\ Len(trend_alerts) = 1
                        /\ trend_alerts[1].alert_type = "trend_anomaly"
                        /\ trend_alerts[1].level = "warning"
                        /\ trend_alerts[1].threshold = 20
                        /\ trend_alerts[1].value[1] * CentredDen(Fitted)
                             = n * CentredNum(Fitted) * trend_alerts[1].value[2]
            /\ ~above => trend_alerts = << >>
            /\ NonIncreasing(Fitted) => trend_alerts = << >>
            /\ Fitted = ExampleSeries => Len(trend_alerts) = 1

C9_Witness ==
    /\ TrendDone
    /\ Fitted = ExampleSeries
    /\ Len(trend_alerts) = 1
    /\ trend_alerts[1].threshold = 20

----------------------------------------------------------------------------
(* Correlation engine: ranking of the strong correlations                  *)

\* Numeric columns of the matrix at most.
MaxCols == 3

Columns == << "temperature", "humidity", "pressure", "aqi_us", "wind_speed" >>

\* Coefficients in hundredths.
CorrInputs == { -100, -80, -70, -69, 70, 79, 80 }

UpperPairs(n) == { p \in (1..n) \X (1..n) : p[1] < p[2] }

\* DataFrame.corr(): a symmetric matrix with 1.0 on the diagonal; an entry
\* is NaN (None) when a pair has no variance or no common rows.  With nulls
\* the coefficients are computed pairwise, so the entries are unconstrained.
MatrixOf(n, u) ==
    [ columns |-> SubSeq(Columns, 1, n),
      values  |-> [ i \in 1..n |-> [ j \in 1..n |->
                     IF i = j THEN Some(100)
                     ELSE IF i < j THEN u[<< i, j >>] ELSE u[<< j, i >>] ] ] ]

Matrices(n) ==
    { MatrixOf(n, u) : u \in [ UpperPairs(n) -> Field(CorrInputs) ] }

\* corr_matrix.iloc[i, j], positions counted from 0.
iloc(m, i, j) == m.values[i + 1][j + 1]

\* Variant: the signed coefficient compared, without abs().
reaches_signed(corr_value, threshold) ==
    ~IsNone(corr_value) /\ Val(corr_value) >= threshold

\* abs(corr_value) >= threshold; every comparison with NaN is false.
reaches(corr_value, threshold) ==
    ~IsNone(corr_value) /\ Abs(Val(corr_value)) >= threshold

\* The dictionary appended for the pair (i, j).
corr_entry(m, i, j) ==
    LET corr_value == Val(iloc(m, i, j)) IN
    [ var1 |-> m.columns[i + 1],
      var2 |-> m.columns[j + 1],
      correlation |-> corr_value,
      strength |-> IF Abs(corr_value) >= 80 THEN "strong" ELSE "moderate",
      direction |-> IF corr_value > 0 THEN "positive" ELSE "negative" ]

\* First j of the inner loop: range(i+1, len(columns)).
inner_start(i) == i + 1

\* The nested loops over i and j, appending in visiting order.
RECURSIVE scan_pairs(_, _, _, _, _)
scan_pairs(m, threshold, i, j, acc) ==
    LET n == Len(m.columns) IN
    IF i >= n THEN acc
    ELSE IF j >= n THEN scan_pairs(m, threshold, i + 1, inner_start(i + 1), acc)
    ELSE scan_pairs(m, threshold, i, j + 1,
                    IF reaches(iloc(m, i, j), threshold)
                    THEN Append(acc, corr_entry(m, i, j))
                    ELSE acc)

\* Variant: x enters before the elements whose key equals its own, as an
\* unstable sort may leave them.
RECURSIVE insert_desc_before_equal(_, _)
insert_desc_before_equal(sorted, x) ==
    IF sorted = << >> THEN << x >>
    ELSE IF Abs(Head(sorted).correlation) > Abs(x.correlation)
    THEN << Head(sorted) >> \o insert_desc_before_equal(Tail(sorted), x)
    ELSE << x >> \o sorted

\* Position at which x enters a list already in descending order of
\* abs(correlation): after every element whose key is >= its own.
RECURSIVE insert_desc(_, _)
insert_desc(sorted, x) ==
    IF sorted = << >> THEN << x >>
    ELSE IF Abs(Head(sorted).correlation) >= Abs(x.correlation)
    THEN << Head(sorted) >> \o insert_desc(Tail(sorted), x)
    ELSE << x >> \o sorted

\* list.sort(key=abs(correlation), reverse=True): stable, descending.
RECURSIVE sort_desc(_, _)
sort_desc(list, sorted) ==
    IF list = << >> THEN sorted
    ELSE sort_desc(Tail(list), insert_desc(sorted, Head(list)))

\* _find_strong_correlations(corr_matrix, threshold): scan, then sort.
find_strong_correlations(m, threshold) ==
    sort_desc(scan_pairs(m, threshold, 0, inner_start(0), << >>), << >>)

InitCorr ==
    /\ thresholds = DefaultThresholds
    /\ data = << >>
    /\ air_alerts = << >>
    /\ weather_alerts = << >>
    /\ raised = {}
    /\ historical_data = << >>
    /\ trend_alerts = << >>
    /\ \E n \in 2..MaxCols : corr_matrix \in Matrices(n)
    /\ strong_corrs = << >>
    /\ called = {}
    /\ OthersIdle

\* A call of _find_strong_correlations(corr_matrix) with the default 0.7.
FindStrongCorrelations ==
    /\ "_find_strong_correlations" \notin called
    /\ strong_corrs' = find_strong_correlations(corr_matrix, 70)
    /\ called' = called \cup { "_find_strong_correlations" }
    /\ UNCHANGED << evalVars, trendVars, corr_matrix, otherVars >>

NextCorr == FindStrongCorrelations

SpecCorr == InitCorr /\ [][NextCorr]_vars

----------------------------------------------------------------------------
(* Properties of the correlation ranking                                   *)

CorrDone == "_find_strong_correlations" \in called

NCols == Len(corr_matrix.columns)

\* The positions of the list that hold the pair (var1, var2) = (a, b).
Holding(a, b) ==
    { k \in 1..Len(strong_corrs) :
        strong_corrs[k].var1 = a /\ strong_corrs[k].var2 = b }

\* C10: the list holds exactly the column pairs, each unordered pair once
\* and no column with itself, whose absolute coefficient is >= 0.7; a pair
\* is "strong" iff |r| >= 0.8 and "moderate" otherwise, "positive" iff
\* r > 0 and "negative" otherwise, so r = -1.0 is strong/negative.
C10_ExactlyTheStrongPairs ==
    CorrDone =>
        /\ \A i, j \in 1..NCols :
              LET r == corr_matrix.values[i][j]
                  a == corr_matrix.columns[i]
                  b == corr_matrix.columns[j]
              IN  Cardinality(Holding(a, b)) =
                     IF i < j /\ ~IsNone(r) /\ Abs(Val(r)) >= 70 THEN 1 ELSE 0
        /\ Len(strong_corrs) =
              Cardinality({ p \in UpperPairs(NCols) :
                  /\ ~IsNone(corr_matrix.values[p[1]][p[2]])
                  /\ Abs(Val(corr_matrix.values[p[1]][p[2]])) >= 70 })
        /\ \A k \in 1..Len(strong_corrs) :
              LET e == strong_corrs[k] IN
              /\ \E p \in UpperPairs(NCols) :
                    /\ e.var1 = corr_matrix.columns[p[1]]
                    /\ e.var2 = corr_matrix.columns[p[2]]
                    /\ Some(e.correlation) = corr_matrix.values[p[1]][p[2]]
              /\ e.strength = "strong" <=> Abs(e.correlation) >= 80
              /\ e.strength = "moderate" <=> Abs(e.correlation) < 80
              /\ e.direction = "positive" <=> e.correlation > 0
              /\ e.direction = "negative" <=> e.correlation <= 0
              /\ e.correlation = -100 =>
                    e.strength = "strong" /\ e.direction = "negative"

C10_Witness ==
    /\ CorrDone
    /\ \E k \in 1..Len(strong_corrs) :
          /\ strong_corrs[k].correlation = -100
          /\ strong_corrs[k].strength = "strong"
          /\ strong_corrs[k].direction = "negative"
    /\ \E p \in UpperPairs(NCols) : IsNone(corr_matrix.values[p[1]][p[2]])
    /\ Len(strong_corrs) = 2

----------------------------------------------------------------------------
(* Order of the ranking, on matrices wide enough for the traversal orders  *)
(* of the upper triangle to differ                                         *)

\* Numeric columns of the ranked matrix at most.
MaxRankCols == 4

\* Coefficients that all reach 0.7, two of them with equal absolute value.
RankInputs == { -80, 80, 100 }

RankMatrices(n) ==
    { MatrixOf(n, u) : u \in [ UpperPairs(n) -> { Some(v) : v \in RankInputs } ] }

InitRank ==
    /\ thresholds = DefaultThresholds
    /\ data = << >>
    /\ air_alerts = << >>
    /\ weather_alerts = << >>
    /\ raised = {}
    /\ historical_data = << >>
    /\ trend_alerts = << >>
    /\ \E n \in 2..MaxRankCols : corr_matrix \in RankMatrices(n)
    /\ strong_corrs = << >>
    /\ called = {}
    /\ OthersIdle

SpecRank == InitRank /\ [][NextCorr]_vars

\* Position of a column name in the matrix.
ColIndex(name) == CHOOSE i \in 1..NCols : corr_matrix.columns[i] = name

Row(e) == ColIndex(e.var1)

Col(e) == ColIndex(e.var2)

\* (i, j) is visited before (i2, j2) when the upper triangle is traversed
\* row by row.
RowMajorBefore(e, f) ==
    Row(e) < Row(f) \/ (Row(e) = Row(f) /\ Col(e) < Col(f))

\* ... and when it is traversed column by column.
ColMajorBefore(e, f) ==
    Col(e) < Col(f) \/ (Col(e) = Col(f) /\ Row(e) < Row(f))

SortedDescending ==
    \A k \in 1..(Len(strong_corrs) - 1) :
        Abs(strong_corrs[k].correlation) >= Abs(strong_corrs[k + 1].correlation)

\* C11 (as stated): the list is in descending order of absolute coefficient
\* and pairs of equal absolute coefficient are in column-major order of the
\* upper triangle.
C11_TiesColumnMajor ==
    CorrDone =>
        /\ SortedDescending
        /\ \A k, l \in 1..Len(strong_corrs) :
              (k < l /\ Abs(strong_corrs[k].correlation)
                          = Abs(strong_corrs[l].correlation))
                 => ColMajorBefore(strong_corrs[k], strong_corrs[l])

\* C11 (amended): the list is in descending order of absolute coefficient
\* and pairs of equal absolute coefficient are in the order the loops visit
\* them, which is row-major over the upper triangle (i ascending, then j).
C11_TiesRowMajor ==
    CorrDone =>
        /\ SortedDescending
        /\ \A k, l \in 1..Len(strong_corrs) :
              (k < l /\ Abs(strong_corrs[k].correlation)
                          = Abs(strong_corrs[l].correlation))
                 => RowMajorBefore(strong_corrs[k], strong_corrs[l])

\* Two tied pairs that the two traversals order differently, below a
\* larger coefficient that the scan met later.
C11_Witness ==
    /\ CorrDone
    /\ NCols = 4
    /\ \E k, l \in 1..Len(strong_corrs) :
          /\ k < l
          /\ Abs(strong_corrs[k].correlation) = Abs(strong_corrs[l].correlation)
          /\ Row(strong_corrs[k]) = 1 /\ Col(strong_corrs[k]) = 4
          /\ Row(strong_corrs[l]) = 2 /\ Col(strong_corrs[l]) = 3
    /\ strong_corrs[1].correlation = 100
    /\ Row(strong_corrs[1]) = 3

----------------------------------------------------------------------------
(* CorrelationAnalyzer.analyze_correlations: the staged analysis of a      *)
(* frame.  A stage result is "value" (the stage's product) or "error" (a   *)
(* dict holding an error key); a p-value is in hundredths.                 *)

ColumnSets ==
    { {},
      { "temperature" },
      { "temperature", "hour" },
      { "temperature", "humidity" },
      { "temperature", "aqi_us" },
      { "temperature", "humidity", "aqi_us" },
      { "temperature", "humidity", "pressure", "aqi_us" },
      { "temperature", "humidity", "pressure", "wind_speed" } }

RowCounts == { 0, 1, 9, 10, 40 }

Frames ==
    { [ columns |-> c, rows |-> r ] :
        c \in ColumnSets, r \in [ NullPatterns -> RowCounts ] }

PValueInputs == { 4, 5 }

WeatherFactors ==
    { "temperature", "humidity", "pressure", "wind_speed", "clouds" }

RECURSIVE SumCounts(_, _)
SumCounts(rows, pats) ==
    IF pats = {} THEN 0
    ELSE LET pat == CHOOSE x \in pats : TRUE IN
         rows[pat] + SumCounts(rows, pats \ { pat })

\* len(df)
FrameLen(frame) == SumCounts(frame.rows, NullPatterns)

\* df.dropna(subset=cols): the rows that are null in one of cols go.
dropna_subset(frame, cols) ==
    [ frame EXCEPT !.rows =
        [ pat \in NullPatterns |->
            IF pat \cap cols \cap frame.columns = {} THEN frame.rows[pat]
            ELSE 0 ] ]

\* df[col].isna().all()
isna_all(frame, col) ==
    \A pat \in NullPatterns : frame.rows[pat] > 0 => col \in pat

\* The null patterns that occur among the rows of a frame.
PatternsOf(frame) == { pat \in NullPatterns : frame.rows[pat] > 0 }

\* stats.pearsonr(frame['aqi_us'], frame[factor]): a null in either input
\* makes the coefficient and the p-value NaN, and NaN < 0.05 is False.
pearsonr(frame, factor, p) ==
    LET nan == \E pat \in PatternsOf(frame) :
                   pat \cap { "aqi_us", factor } \cap frame.columns # {}
    IN  [ rows        |-> PatternsOf(frame),
          p_value     |-> IF nan THEN None ELSE Some(p),
          significant |-> ~nan /\ p < 5 ]

\* _analyze_aqi_correlations(df)
analyze_aqi_correlations(frame, p) ==
    IF "aqi_us" \notin frame.columns \/ isna_all(frame, "aqi_us")
    THEN [ error |-> TRUE, weather_correlations |-> NoDict ]
    ELSE LET df_clean == dropna_subset(frame, { "aqi_us" }) IN
         IF FrameLen(df_clean) < 10
         THEN [ error |-> TRUE, weather_correlations |-> NoDict ]
         ELSE [ error |-> FALSE,
                weather_correlations |->
                    [ factor \in WeatherFactors \cap df_clean.columns |->
                        pearsonr(df_clean, factor, p[factor]) ] ]

\* len(df[numeric_cols].dropna())
complete_rows(frame, numeric_cols) ==
    FrameLen(dropna_subset(frame, numeric_cols))

\* The gates of the optional stages.
clustering_gate_inclusive(frame) == FrameLen(frame) >= 50

clustering_gate(frame) == FrameLen(frame) > 50

pca_gate(numeric_cols) == Cardinality(numeric_cols) > 3

StageOf(refused) == IF refused THEN "error" ELSE "value"

\* analyze_correlations(df).results and the weather_correlations inside it.
analyze_correlations(frame, p) ==
    LET numeric_cols == frame.columns \ { "hour", "day_of_week" }
        aqi == analyze_aqi_correlations(frame, p)
        matrix == [ k \in { "correlation_matrix", "strong_correlations",
                            "temporal_patterns" } |-> "value" ]
        aqi_analysis ==
            IF "aqi_us" \in frame.columns
            THEN ("aqi_analysis" :> StageOf(aqi.error)) ELSE NoDict
        clustering ==
            IF clustering_gate(frame)
            THEN ("clustering" :>
                      StageOf(complete_rows(frame, numeric_cols) < 10))
            ELSE NoDict
        pca ==
            IF pca_gate(numeric_cols)
            THEN ("pca" :> StageOf(complete_rows(frame, numeric_cols) < 10
                                   \/ Cardinality(numeric_cols) < 3))
            ELSE NoDict
    IN  IF Cardinality(numeric_cols) < 2
        THEN [ results |-> ("error" :> "Dados insuficientes para analise"),
               weather_correlations |-> NoDict ]
        ELSE [ results |-> matrix @@ aqi_analysis @@ clustering @@ pca,
               weather_correlations |->
                   IF "aqi_us" \in frame.columns
                   THEN aqi.weather_correlations ELSE NoDict ]

\* The evaluator, the trend step and the ranking have been handed nothing.
EvalIdle ==
    /\ thresholds = DefaultThresholds
    /\ data = << >>
    /\ air_alerts = << >>
    /\ weather_alerts = << >>
    /\ raised = {}

TrendIdle ==
    /\ historical_data = << >>
    /\ trend_alerts = << >>

CorrIdle ==
    /\ corr_matrix = NoMatrix
    /\ strong_corrs = << >>

InitAnalysis ==
    /\ EvalIdle
    /\ TrendIdle
    /\ CorrIdle
    /\ LateIdle
    /\ called = {}
    /\ df \in Frames
    /\ p_values \in [ WeatherFactors \cap df.columns -> PValueInputs ]
    /\ results = NoDict
    /\ weather_correlations = NoDict
    /\ cluster_analysis = NoDict
    /\ RestIdle

\* A call of analyze_correlations(df).
AnalyzeCorrelations ==
    /\ "analyze_correlations" \notin called
    /\ LET r == analyze_correlations(df, p_values) IN
         /\ results' = r.results
         /\ weather_correlations' = r.weather_correlations
    /\ called' = called \cup { "analyze_correlations" }
    /\ UNCHANGED << lateVars, evalVars, trendVars, corrVars, df, p_values,
                    cluster_analysis, restVars >>

NextAnalysis == AnalyzeCorrelations

SpecAnalysis == InitAnalysis /\ [][NextAnalysis]_vars

AnalysisDone == "analyze_correlations" \in called

NumericCols == df.columns \ { "hour", "day_of_week" }

\* C12: a frame with fewer than 10 rows gives a result that holds an error
\* key and no correlation_matrix key.
C12_ErrorBelowTenRows ==
    (AnalysisDone /\ FrameLen(df) < 10)
        => ("error" \in DOMAIN results
            /\ "correlation_matrix" \notin DOMAIN results)

\* Rows a stage can use: the rows that hold an AQI value, and the rows with
\* no null in any numeric column.
AqiRows == FrameLen(dropna_subset(df, { "aqi_us" }))
CompleteRows == complete_rows(df, NumericCols)

StageFailed(key) == key \in DOMAIN results /\ results[key] = "error"

\* C13: every stage handed fewer than 10 usable rows or too few numeric
\* columns answers with an error dict, and analyze_correlations does not
\* raise: the matrix stage (whose only error answer is the top-level error
\* key), the AQI stage, clustering and PCA.
C13_EveryStageRefuses ==
    AnalysisDone =>
        /\ (FrameLen(df) < 10 \/ Cardinality(NumericCols) < 2)
               => "error" \in DOMAIN results
        /\ ("aqi_analysis" \in DOMAIN results /\ AqiRows < 10)
               => StageFailed("aqi_analysis")
        /\ ("clustering" \in DOMAIN results /\ CompleteRows < 10)
               => StageFailed("clustering")
        /\ ("pca" \in DOMAIN results
              /\ (CompleteRows < 10 \/ Cardinality(NumericCols) < 3))
               => StageFailed("pca")
        /\ "analyze_correlations" \notin raised

\* C14: the correlation test of a predictor only sees rows in which both
\* the AQI value and the predictor's value are present, and the pair is
\* significant iff its p-value is below 0.05.
C14_PairwiseDropped ==
    AnalysisDone =>
        \A factor \in DOMAIN weather_correlations :
            LET t == weather_correlations[factor] IN
            /\ \A pat \in t.rows : "aqi_us" \notin pat /\ factor \notin pat
            /\ t.significant <=> (~IsNone(t.p_value) /\ Val(t.p_value) < 5)

OptionalGates ==
    /\ "clustering" \in DOMAIN results <=> FrameLen(df) > 50
    /\ "pca" \in DOMAIN results <=> Cardinality(NumericCols) > 3

\* C15 as stated: the clustering entry is present iff the frame has more
\* than 50 rows and the pca entry iff it has more than 3 numeric
\* non-identifier columns, whatever the frame.
C15_GatedOnlyBySize == AnalysisDone => OptionalGates

\* C15: for a frame with at least two numeric non-identifier columns the
\* clustering entry is present iff the frame has more than 50 rows and the
\* pca entry iff it has more than 3 such columns; a frame with fewer than
\* two such columns gives a result that holds the error key alone.
C15_GatedBySizeAfterColumnCheck ==
    AnalysisDone =>
        IF Cardinality(NumericCols) >= 2 THEN OptionalGates
        ELSE DOMAIN results = { "error" }

C15_Witness ==
    /\ AnalysisDone
    /\ FrameLen(df) = 51
    /\ Cardinality(NumericCols) = 4
    /\ { "clustering", "pca" } \subseteq DOMAIN results

----------------------------------------------------------------------------
(* CorrelationAnalyzer._perform_clustering.  The labels KMeans assigns are *)
(* an input: any assignment of the complete rows to the clusters.          *)

MaxCompleteRows == 10

ClusterColumns == { "temperature", "humidity", "aqi_us" }

ClusterFrames ==
    { [ columns |-> ClusterColumns,
        rows |-> [ pat \in NullPatterns |->
                     IF pat = {} THEN n
                     ELSE IF pat = { "aqi_us" } THEN m ELSE 0 ] ] :
        n \in 0..MaxCompleteRows, m \in { 0, 1 } }

ClusterKeys == << "cluster_0", "cluster_1", "cluster_2" >>

Min2(a, b) == IF a < b THEN a ELSE b

\* The stop of K_range = range(2, min(8, len(df_clean) // 2)).
K_range_stop_quarter(k) == Min2(8, k \div 4)

K_range_stop(k) == Min2(8, k \div 2)

\* optimal_k = 3 if len(K_range) >= 2 else 2
optimal_k(k) ==
    LET len_K_range == IF K_range_stop(k) > 2 THEN K_range_stop(k) - 2 ELSE 0
    IN  IF len_K_range >= 2 THEN 3 ELSE 2

NoClustering == [ error |-> TRUE, n_clusters |-> 0, cluster_stats |-> NoDict ]

\* _perform_clustering(df, numeric_cols), clusters being the labels that
\* kmeans.fit_predict gives the rows of df_clean.
perform_clustering(frame, numeric_cols, clusters) ==
    LET k == complete_rows(frame, numeric_cols) IN
    IF k < 10 THEN NoClustering
    ELSE [ error |-> FALSE,
           n_clusters |-> optimal_k(k),
           cluster_stats |->
               [ key \in { ClusterKeys[i + 1] : i \in 0..(optimal_k(k) - 1) } |->
                   LET i == CHOOSE j \in 0..(optimal_k(k) - 1) :
                                ClusterKeys[j + 1] = key
                   IN  [ size |-> Cardinality({ r \in 1..k : clusters[r] = i }) ] ] ]

\* The label assignments fit_predict can give k rows.
Labelings(k) == [ 1..k -> 0..(optimal_k(k) - 1) ]

InitCluster ==
    /\ EvalIdle
    /\ TrendIdle
    /\ CorrIdle
    /\ LateIdle
    /\ called = {}
    /\ df \in ClusterFrames
    /\ p_values = NoDict
    /\ results = NoDict
    /\ weather_correlations = NoDict
    /\ cluster_analysis = NoDict
    /\ RestIdle

\* A call of _perform_clustering(df, numeric_cols).
PerformClustering ==
    /\ "_perform_clustering" \notin called
    /\ LET k == complete_rows(df, df.columns) IN
         \E clusters \in Labelings(IF k < 10 THEN 0 ELSE k) :
             cluster_analysis' = perform_clustering(df, df.columns, clusters)
    /\ called' = called \cup { "_perform_clustering" }
    /\ UNCHANGED << lateVars, evalVars, trendVars, corrVars, df, p_values, results,
                    weather_correlations, restVars >>

NextCluster == PerformClustering

SpecCluster == InitCluster /\ [][NextCluster]_vars

ClusterDone == "_perform_clustering" \in called

RECURSIVE SumSizes(_, _)
SumSizes(stats, keys) ==
    IF keys = {} THEN 0
    ELSE LET key == CHOOSE x \in keys : TRUE IN
         stats[key].size + SumSizes(stats, keys \ { key })

\* C16: a clustering that runs to completion uses 3 clusters whatever the
\* number of rows: n_clusters is 3, cluster_stats has exactly the keys
\* cluster_0, cluster_1 and cluster_2, and the sizes add up to the number of
\* rows with no null; it completes whenever there are 10 such rows.
C16_ThreeClusters ==
    ClusterDone =>
        /\ cluster_analysis.error <=> complete_rows(df, df.columns) < 10
        /\ ~cluster_analysis.error =>
              /\ cluster_analysis.n_clusters = 3
              /\ DOMAIN cluster_analysis.cluster_stats
                     = { "cluster_0", "cluster_1", "cluster_2" }
              /\ SumSizes(cluster_analysis.cluster_stats,
                          DOMAIN cluster_analysis.cluster_stats)
                     = complete_rows(df, df.columns)

C16_Witness ==
    /\ ClusterDone
    /\ ~cluster_analysis.error
    /\ complete_rows(df, df.columns) = 10
    /\ FrameLen(df) = 11
    /\ cluster_analysis.cluster_stats["cluster_2"].size = 0

----------------------------------------------------------------------------
(* ClimateAlertSystem.analyze_current_conditions over a database that can  *)
(* change and fail between and during calls, and run_correlation_analysis  *)
(* of climate_analyzer.py over the same database.  The dict a query        *)
(* returns is << d >>, and << >> when it is the empty dict or frame.       *)

MaxCalls == 3

Reading(aqi_us, temperature, wind_speed) ==
    [ k \in MetricKeys |->
        IF k = "aqi_us" THEN aqi_us
        ELSE IF k = "temperature" THEN temperature ELSE wind_speed ]

SystemReadings ==
    { Reading(Some(50), Some(22), Some(0)),
      Reading(Some(101), Some(22), Some(15)),
      Reading(Some(320), Some(45), Some(30)),
      Reading(None, None, Some(30)),
      Reading(Some(320), Text, Some(30)) }

SystemHistories ==
    { << >>,
      [ i \in 1..5 |-> Some(10) ],
      [ i \in 1..Len(ExampleSeries) |-> Some(ExampleSeries[i]) ] }

SystemFrames ==
    { [ columns |-> ClusterColumns,
        rows |-> [ pat \in NullPatterns |-> IF pat = {} THEN n ELSE 0 ] ] :
        n \in { 0, 12 } }

Storages ==
    { NoStorage } \cup
    { [ row |-> << r >>, history |-> h, frame |-> f, weather_records |-> w ] :
        r \in SystemReadings, h \in SystemHistories, f \in SystemFrames,
        w \in { 9, 10 } }

\* _get_latest_data: the row, or {} when there is none or the query fails.
get_latest_data(db, fails) ==
    IF "latest" \in fails THEN << >> ELSE db.row

\* _get_historical_data: the rows, or [] when the query fails.
get_historical_data(db, fails) ==
    IF "history" \in fails THEN << >> ELSE db.history

\* load_integrated_data: the frame, or an empty DataFrame when it fails.
load_integrated_data(db, fails) ==
    IF "integrated" \in fails THEN NoFrame ELSE db.frame

\* analyze_current_conditions on a system whose active_alerts is active:
\* the list returned, the trend step's list and the new active_alerts.
analyze_current_conditions(active, th, db, fails) ==
    LET latest_data == get_latest_data(db, fails)
        air == analyze_air_quality(th, Val(latest_data))
        weather == analyze_weather_conditions(th, Val(latest_data))
        trend == analyze_trends(get_historical_data(db, fails))
        all == air.alerts \o weather.alerts \o trend
    IN  IF IsNone(latest_data)
        THEN [ alerts |-> << >>, trend_alerts |-> << >>,
               active_alerts |-> active ]
        ELSE IF air.exc # "none"
        THEN [ alerts |-> << >>, trend_alerts |-> << >>,
               active_alerts |-> active ]
        ELSE IF weather.exc # "none"
        THEN [ alerts |-> air.alerts, trend_alerts |-> << >>,
               active_alerts |-> active ]
        ELSE [ alerts |-> all, trend_alerts |-> trend, active_alerts |-> all ]

IsCritical(a) == a.level \in { "critical", "emergency" }

\* get_alerts_summary()
get_alerts_summary(active) ==
    [ total |-> Len(active),
      by_level |->
          [ l \in { active[i].level : i \in 1..Len(active) } |->
              Cardinality({ i \in 1..Len(active) : active[i].level = l }) ],
      by_type |->
          [ t \in { active[i].alert_type : i \in 1..Len(active) } |->
              Cardinality({ i \in 1..Len(active) : active[i].alert_type = t }) ],
      critical_count |->
          Cardinality({ i \in 1..Len(active) : IsCritical(active[i]) }) ]

\* df.empty
frame_empty(frame) == frame.columns = {} \/ FrameLen(frame) = 0

\* Variant: the frame is analysed without the df.empty test.
run_correlation_analysis_unchecked(frame) ==
    [ success |-> TRUE, error |-> "", records_analyzed |-> FrameLen(frame) ]

\* run_correlation_analysis, given the frame load_integrated_data returned.
run_correlation_analysis(frame) ==
    IF frame_empty(frame)
    THEN [ success |-> FALSE, error |-> "Dados insuficientes",
           records_analyzed |-> 0 ]
    ELSE [ success |-> TRUE, error |-> "", records_analyzed |-> FrameLen(frame) ]

NoResult == [ success |-> FALSE, error |-> "none", records_analyzed |-> 0 ]

InitSystem ==
    /\ EvalIdle
    /\ TrendIdle
    /\ CorrIdle
    /\ LateIdle
    /\ called = {}
    /\ AnalysisIdle
    /\ storage \in Storages
    /\ failed = {}
    /\ active_alerts = << >>
    /\ returned = << >>
    /\ n_calls = 0
    /\ corr_result = NoResult
    /\ NotifyIdle
    /\ CacheIdle

\* The collector writes, or the data goes: the database changes.
Collect ==
    /\ storage' \in Storages \ { storage }
    /\ UNCHANGED << lateVars, evalVars, trendVars, corrVars, called, analysisVars,
                    failed, active_alerts, returned, n_calls, corr_result,
                    notifyVars, cacheVars >>

\* A call of analyze_current_conditions(); each of its two queries can fail.
AnalyzeCurrentConditions ==
    /\ n_calls < MaxCalls
    /\ \E fails \in SUBSET { "latest", "history" } :
         LET r == analyze_current_conditions(active_alerts, thresholds,
                                             storage, fails) IN
           /\ failed' = (failed \ { "latest", "history" }) \cup fails
           /\ returned' = r.alerts
           /\ trend_alerts' = r.trend_alerts
           /\ active_alerts' = r.active_alerts
    /\ n_calls' = n_calls + 1
    /\ called' = called \cup { "analyze_current_conditions" }
    /\ UNCHANGED << lateVars, evalVars, historical_data, corrVars, analysisVars,
                    storage, corr_result, notifyVars, cacheVars >>

\* A call of run_correlation_analysis(); its query can fail.
RunCorrelationAnalysis ==
    /\ "run_correlation_analysis" \notin called
    /\ \E fails \in SUBSET { "integrated" } :
         /\ failed' = (failed \ { "integrated" }) \cup fails
         /\ corr_result' =
                run_correlation_analysis(load_integrated_data(storage, fails))
    /\ called' = called \cup { "run_correlation_analysis" }
    /\ UNCHANGED << lateVars, evalVars, trendVars, corrVars, analysisVars, storage,
                    active_alerts, returned, n_calls, notifyVars, cacheVars >>

NextSystem == Collect \/ AnalyzeCurrentConditions \/ RunCorrelationAnalysis

SpecSystem == InitSystem /\ [][NextSystem]_vars

\* C18: a query that fails counts as no data.  When the latest reading
\* cannot be loaded analyze_current_conditions returns an empty list, when
\* the history cannot be loaded the trend step gives no alert, when the
\* integrated data cannot be loaded run_correlation_analysis reports
\* failure; none of the calls raises.
C18_StorageFailureIsNoData ==
    /\ ("analyze_current_conditions" \in called /\ "latest" \in failed)
           => returned = << >>
    /\ ("analyze_current_conditions" \in called /\ "history" \in failed)
           => trend_alerts = << >>
    /\ ("run_correlation_analysis" \in called /\ "integrated" \in failed)
           => (~corr_result.success /\ corr_result.error = "Dados insuficientes")
    /\ raised = {}

C18_Witness ==
    /\ "analyze_current_conditions" \in called
    /\ "run_correlation_analysis" \in called
    /\ failed = { "latest", "history", "integrated" }
    /\ returned = << >>
    /\ ~IsNone(storage.row)
    /\ ~frame_empty(storage.frame)
    /\ ~corr_result.success

\* C19: after any sequence of analyze_current_conditions calls active_alerts
\* holds exactly the alerts the most recent call returned, also when that
\* call found no data and returned an empty list.
C19_ActiveAlertsAreLatest ==
    n_calls > 0 => active_alerts = returned

----------------------------------------------------------------------------
(* AutomationScheduler.run_alert_check: `climate_analyzer.py --alerts` run *)
(* as a subprocess, its output searched for the critical-alert line, and   *)
(* _send_notification.                                                     *)

Configs == [ enabled : BOOLEAN, webhook : BOOLEAN, email : BOOLEAN ]

\* Variant: the line is printed whenever there is any alert.
stdout_marker_any(summary) == summary.total > 0

\* run_alert_analysis prints "ALERTAS CRITICOS: n" iff critical_count > 0.
stdout_marker(summary) == summary.critical_count > 0

\* run_alert_analysis(db_path): a fresh ClimateAlertSystem analyses and is
\* asked for its summary.
run_alert_analysis(db, fails) ==
    LET r == analyze_current_conditions(<< >>, DefaultThresholds, db, fails)
        summary == get_alerts_summary(r.active_alerts)
    IN  [ success |-> TRUE, marker |-> stdout_marker(summary),
          produced |-> r.alerts ]

\* run_comprehensive_analysis(args) for --alerts without --force: False when
\* the database check fails or weather_data has fewer than 10 records.
run_comprehensive_analysis(db, fails) ==
    IF "check" \in fails \/ db.weather_records < 10
    THEN [ success |-> FALSE, marker |-> FALSE, produced |-> << >> ]
    ELSE run_alert_analysis(db, fails)

\* _send_notification: the channels a notification goes out over.  A
\* webhook post that raises ends the call before the e-mail is tried.
send_notification(cfg, post_raises) ==
    IF ~cfg.enabled THEN {}
    ELSE (IF cfg.webhook THEN { "webhook" } ELSE {})
             \cup (IF cfg.email /\ ~(cfg.webhook /\ post_raises)
                   THEN { "email" } ELSE {})

\* run_alert_check, given whether the subprocess ran into the timeout.
run_alert_check(cfg, db, fails, timed_out, post_raises) ==
    LET run == run_comprehensive_analysis(db, fails)
        returncode == IF run.success THEN 0 ELSE 1
    IN  IF timed_out
        THEN [ check |-> [ outcome |-> "timeout", marker |-> FALSE,
                           produced |-> << >>, result |-> FALSE ],
               sent |-> {} ]
        ELSE IF returncode = 0
        THEN [ check |-> [ outcome |-> "exit0", marker |-> run.marker,
                           produced |-> run.produced, result |-> TRUE ],
               sent |-> IF run.marker THEN send_notification(cfg, post_raises)
                        ELSE {} ]
        ELSE [ check |-> [ outcome |-> "exit1", marker |-> run.marker,
                           produced |-> run.produced, result |-> FALSE ],
               sent |-> {} ]

InitNotify ==
    /\ EvalIdle
    /\ TrendIdle
    /\ CorrIdle
    /\ LateIdle
    /\ called = {}
    /\ AnalysisIdle
    /\ storage \in Storages
    /\ failed = {}
    /\ active_alerts = << >>
    /\ returned = << >>
    /\ n_calls = 0
    /\ corr_result = NoResult
    /\ config \in Configs
    /\ check = NoCheck
    /\ sent = {}
    /\ CacheIdle

\* A call of run_alert_check().
RunAlertCheck ==
    /\ "run_alert_check" \notin called
    /\ \E fails \in SUBSET { "check", "latest", "history" },
          timed_out \in BOOLEAN, post_raises \in BOOLEAN :
         LET r == run_alert_check(config, storage, fails, timed_out,
                                  post_raises) IN
           /\ failed' = fails
           /\ check' = r.check
           /\ sent' = r.sent
    /\ called' = called \cup { "run_alert_check" }
    /\ UNCHANGED << lateVars, evalVars, trendVars, corrVars, analysisVars, storage,
                    active_alerts, returned, n_calls, corr_result, config,
                    cacheVars >>

NextNotify == RunAlertCheck

SpecNotify == InitNotify /\ [][NextNotify]_vars

ProducedCritical ==
    \E i \in 1..Len(check.produced) : IsCritical(check.produced[i])

\* C17: run_alert_check notifies only when the evaluation it ran produced
\* an alert of level critical or emergency: never when all alerts are info
\* or warning, when the evaluation failed or timed out, or when
\* notifications are disabled in the configuration.
C17_NotifyOnlyCritical ==
    sent # {} =>
        /\ ProducedCritical
        /\ check.outcome = "exit0"
        /\ config.enabled

C17_Witness ==
    /\ "run_alert_check" \in called
    /\ sent = { "webhook", "email" }
    /\ ProducedCritical

----------------------------------------------------------------------------
(* SmartCache of src/src/utils/cache_system.py: a memory tier (memory_cache *)
(* with cache_metadata) over a disk tier (one <key>.cache file per key).   *)
(* Time is in whole seconds.  Every method holds the lock from start to    *)
(* end, so a call is one step.                                             *)

MaxTime == 3

CacheKeys == { "k1" }

CacheValues == { "v1", "v2" }

TtlInputs == { None, Some(0), Some(1) }

\* default_ttl the cache was constructed with.
default_ttl == 2

\* dict.pop(key, None) and dict[key] = v
Without(d, key) == [ k \in DOMAIN d \ { key } |-> d[k] ]

With(d, key, v) == [ k \in DOMAIN d \cup { key } |-> IF k = key THEN v ELSE d[k] ]

\* Variant: an entry expires at timestamp + ttl, not after it.
is_expired_inclusive(t_now, timestamp, ttl) == t_now >= timestamp + ttl

\* _is_expired(timestamp, ttl) at time t_now.
is_expired(t_now, timestamp, ttl) == t_now > timestamp + ttl

\* The two tiers of a cache.
Tiers(mem, meta, files) ==
    [ memory_cache |-> mem, cache_metadata |-> meta, disk |-> files ]

\* get(key, memory_first) at time t_now: the value returned (<< >> for
\* None), the tier that served it, and the tiers it leaves.
get(c, key, memory_first, t_now) ==
    LET in_memory == memory_first /\ key \in DOMAIN c.memory_cache
        memory_hit ==
            /\ in_memory
            /\ key \in DOMAIN c.cache_metadata
            /\ ~is_expired(t_now, c.cache_metadata[key].timestamp,
                           c.cache_metadata[key].ttl)
        \* the memory tier after an expired entry has been removed
        mem == IF in_memory /\ ~memory_hit
               THEN Without(c.memory_cache, key) ELSE c.memory_cache
        meta == IF in_memory /\ ~memory_hit
                THEN Without(c.cache_metadata, key) ELSE c.cache_metadata
    IN  IF memory_hit
        THEN [ value |-> Some(c.memory_cache[key]), tier |-> "memory",
               cache |-> c ]
        ELSE IF key \in DOMAIN c.disk
        THEN LET file == c.disk[key] IN
             IF ~is_expired(t_now, file.timestamp, file.ttl)
             THEN [ value |-> Some(file.value), tier |-> "disk",
                    cache |->
                        IF memory_first
                        THEN Tiers(With(mem, key, file.value),
                                   With(meta, key,
                                        [ timestamp |-> file.timestamp,
                                          ttl |-> file.ttl ]),
                                   c.disk)
                        ELSE Tiers(mem, meta, c.disk) ]
             ELSE [ value |-> None, tier |-> "miss",
                    cache |-> Tiers(mem, meta, Without(c.disk, key)) ]
        ELSE [ value |-> None, tier |-> "miss",
               cache |-> Tiers(mem, meta, c.disk) ]

\* set(key, value, ttl, disk_cache, memory_cache) at time t_now.
set(c, key, value, ttl, disk_cache, to_memory, t_now) ==
    LET ttl_used == IF IsNone(ttl) THEN default_ttl ELSE Val(ttl) IN
    Tiers(IF to_memory THEN With(c.memory_cache, key, value)
          ELSE c.memory_cache,
          IF to_memory
          THEN With(c.cache_metadata, key,
                    [ timestamp |-> t_now, ttl |-> ttl_used ])
          ELSE c.cache_metadata,
          IF disk_cache
          THEN With(c.disk, key,
                    [ value |-> value, timestamp |-> t_now, ttl |-> ttl_used ])
          ELSE c.disk)

\* Variant: the file stays.
invalidate_memory_only(c, key) ==
    Tiers(Without(c.memory_cache, key), Without(c.cache_metadata, key), c.disk)

\* invalidate(key)
invalidate(c, key) ==
    Tiers(Without(c.memory_cache, key), Without(c.cache_metadata, key),
          Without(c.disk, key))

\* clear_all()
clear_all(c) == Tiers(NoDict, NoDict, NoDict)

\* _cleanup_expired() at time t_now.
cleanup_expired(c, t_now) ==
    LET expired_keys ==
            { k \in DOMAIN c.cache_metadata :
                is_expired(t_now, c.cache_metadata[k].timestamp,
                           c.cache_metadata[k].ttl) }
        expired_files ==
            { k \in DOMAIN c.disk :
                is_expired(t_now, c.disk[k].timestamp, c.disk[k].ttl) }
    IN  Tiers([ k \in DOMAIN c.memory_cache \ expired_keys |-> c.memory_cache[k] ],
              [ k \in DOMAIN c.cache_metadata \ expired_keys |->
                  c.cache_metadata[k] ],
              [ k \in DOMAIN c.disk \ expired_files |-> c.disk[k] ])

\* The cache as the state holds it.
Cache == Tiers(memory_cache, cache_metadata, disk)

Becomes(c) ==
    /\ memory_cache' = c.memory_cache
    /\ cache_metadata' = c.cache_metadata
    /\ disk' = c.disk

InitCache ==
    /\ EvalIdle
    /\ TrendIdle
    /\ CorrIdle
    /\ LateIdle
    /\ called = {}
    /\ AnalysisIdle
    /\ SystemIdle
    /\ NotifyIdle
    /\ now = 0
    /\ memory_cache = NoDict
    /\ cache_metadata = NoDict
    /\ disk = NoDict
    /\ stored = NoDict
    /\ got = NoGet

idleVars == << evalVars, trendVars, corrVars, called, analysisVars,
               systemVars, notifyVars, lateVars >>

\* A second passes.
Tick ==
    /\ now < MaxTime
    /\ now' = now + 1
    /\ UNCHANGED << idleVars, memory_cache, cache_metadata, disk, stored, got >>

\* A call of set(key, value, ttl, disk_cache, memory_cache).
Set ==
    \E key \in CacheKeys, value \in CacheValues, ttl \in TtlInputs,
       disk_cache \in BOOLEAN, to_memory \in BOOLEAN :
        /\ Becomes(set(Cache, key, value, ttl, disk_cache, to_memory, now))
        /\ stored' = With(stored, key,
                          [ value |-> value, timestamp |-> now,
                            ttl |-> IF IsNone(ttl) THEN default_ttl ELSE Val(ttl),
                            disk_cache |-> disk_cache,
                            memory_cache |-> to_memory ])
        /\ UNCHANGED << idleVars, now, got >>

\* A call of get(key, memory_first).
Get ==
    \E key \in CacheKeys, memory_first \in BOOLEAN :
        LET r == get(Cache, key, memory_first, now) IN
        /\ Becomes(r.cache)
        /\ got' = [ key |-> key, value |-> r.value, tier |-> r.tier ]
        /\ UNCHANGED << idleVars, now, stored >>

\* A call of invalidate(key).
Invalidate ==
    \E key \in CacheKeys :
        /\ Becomes(invalidate(Cache, key))
        /\ stored' = Without(stored, key)
        /\ UNCHANGED << idleVars, now, got >>

\* A call of clear_all().
ClearAll ==
    /\ Becomes(clear_all(Cache))
    /\ stored' = NoDict
    /\ UNCHANGED << idleVars, now, got >>

\* A call of _cleanup_expired().
CleanupExpired ==
    /\ Becomes(cleanup_expired(Cache, now))
    /\ UNCHANGED << idleVars, now, stored, got >>

\* The process ends and a new SmartCache is constructed over the same
\* directory: the memory tier starts empty, __init__ cleans up.
Restart ==
    /\ Becomes(cleanup_expired(Tiers(NoDict, NoDict, disk), now))
    /\ UNCHANGED << idleVars, now, stored, got >>

NextCache ==
    Tick \/ Set \/ Get \/ Invalidate \/ ClearAll \/ CleanupExpired \/ Restart

SpecCache == InitCache /\ [][NextCache]_vars

\* The keys whose latest set call, still in force, was set(key, v, ttl):
\* both tiers written, as the defaults of disk_cache and memory_cache have it.
StoredInBoth ==
    { k \in DOMAIN stored : stored[k].disk_cache /\ stored[k].memory_cache }

\* C20: a value stored by set(key, v, ttl) at time t is what get(key)
\* returns at every time up to t + ttl and get(key) returns None at every
\* later time, as long as no set, invalidate or clear_all of the key
\* intervenes; an entry get has promoted from disk to memory carries the
\* timestamp and ttl of that set, so reading does not extend its life.
C20_ExpiresByTime ==
    \A k \in StoredInBoth :
        LET s == stored[k] IN
        /\ \A memory_first \in BOOLEAN :
               get(Cache, k, memory_first, now).value
                   = IF now <= s.timestamp + s.ttl THEN Some(s.value) ELSE None
        /\ k \in DOMAIN cache_metadata
               => cache_metadata[k] = [ timestamp |-> s.timestamp, ttl |-> s.ttl ]

\* get has just promoted the entry from disk, in the last second of its life.
C20_Witness ==
    /\ got.key \in StoredInBoth
    /\ got.tier = "disk"
    /\ got.key \in DOMAIN memory_cache
    /\ now = stored[got.key].timestamp + stored[got.key].ttl
    /\ now > stored[got.key].timestamp

----------------------------------------------------------------------------
(* The list analyze_current_conditions returns against the summary taken   *)
(* right after it.                                                         *)

CriticalIn(list) ==
    Cardinality({ i \in 1..Len(list) : IsCritical(list[i]) })

\* C22: on a freshly constructed ClimateAlertSystem, after
\* analyze_current_conditions has returned the list L, get_alerts_summary
\* reports total = len(L) and critical_count = the number of critical or
\* emergency alerts in L, also when an analysis step raised and the call
\* returned the alerts collected so far.
C22_SummaryAgreesWithReturned ==
    n_calls = 1 =>
        /\ get_alerts_summary(active_alerts).total = Len(returned)
        /\ get_alerts_summary(active_alerts).critical_count
               = CriticalIn(returned)

----------------------------------------------------------------------------
(* The three AQI bracketings                                               *)

\* Upper end of the last range of AirQualityClassifier.categories.
AqiScaleMax == 500

\* The integer AQI values tried: the scale and one value past each end.
AqiValues == (0 - 1) .. (AqiScaleMax + 1)

\* AirQualityClassifier.categories, in insertion order.
categories ==
    << [ category |-> "Boa", min_val |-> 0, max_val |-> 50 ],
       [ category |-> "Moderada", min_val |-> 51, max_val |-> 100 ],
       [ category |-> "Insalubre para grupos sensiveis",
         min_val |-> 101, max_val |-> 150 ],
       [ category |-> "Insalubre", min_val |-> 151, max_val |-> 200 ],
       [ category |-> "Muito insalubre", min_val |-> 201, max_val |-> 300 ],
       [ category |-> "Perigosa", min_val |-> 301, max_val |-> AqiScaleMax ] >>

\* AirQualityClassifier.classify_aqi: the first range holding the value,
\* "Valor invalido" when none does.
classify_aqi(v) ==
    LET hits == { i \in 1..Len(categories) :
                    categories[i].min_val <= v /\ v <= categories[i].max_val }
    IN IF hits = {} THEN "Valor invalido"
       ELSE categories[CHOOSE i \in hits : \A j \in hits : i <= j].category

get_aqi_category_strict(v) ==
    IF v < 50 THEN "Boa"
    ELSE IF v < 100 THEN "Moderada"
    ELSE IF v < 150 THEN "Insalubre para grupos sensiveis"
    ELSE IF v < 200 THEN "Insalubre"
    ELSE IF v < 300 THEN "Muito insalubre"
    ELSE "Perigosa"

\* AirQualityClient.get_aqi_category: an if/elif chain over upper bounds,
\* open at both ends.
get_aqi_category(v) ==
    IF v <= 50 THEN "Boa"
    ELSE IF v <= 100 THEN "Moderada"
    ELSE IF v <= 150 THEN "Insalubre para grupos sensiveis"
    ELSE IF v <= 200 THEN "Insalubre"
    ELSE IF v <= 300 THEN "Muito insalubre"
    ELSE "Perigosa"

\* What _analyze_air_quality makes of the value: the ids and levels of the
\* alerts it returns.
alert_bracket(th, v) ==
    LET r == analyze_air_quality(th, [ aqi_us |-> Some(v) ]) IN
    [ i \in 1..Len(r.alerts) |->
        [ id |-> r.alerts[i].id, level |-> r.alerts[i].level ] ]

InitBrackets ==
    /\ EvalIdle
    /\ TrendIdle
    /\ CorrIdle
    /\ called = {}
    /\ AnalysisIdle
    /\ RestIdle
    /\ aqi_value \in AqiValues
    /\ brackets = NoDict
    /\ CliIdle
    /\ TaskIdle
    /\ SchedIdle
    /\ RaceIdle
    /\ WrapIdle

bracketIdle == << evalVars, trendVars, corrVars, called, analysisVars,
                  restVars, cliVars, taskVars, schedVars, raceVars,
                  wrapVars >>

Bracketed(name, value) ==
    /\ name \notin DOMAIN brackets
    /\ brackets' = [ k \in DOMAIN brackets \cup { name } |->
                       IF k = name THEN value ELSE brackets[k] ]
    /\ UNCHANGED << bracketIdle, aqi_value >>

\* AirQualityClassifier().classify_aqi(aqi_value)
ClassifyAqi == Bracketed("classify_aqi", << classify_aqi(aqi_value) >>)

\* AirQualityClient.get_aqi_category(aqi_value)
GetAqiCategory ==
    Bracketed("get_aqi_category", << get_aqi_category(aqi_value) >>)

\* ClimateAlertSystem()._analyze_air_quality({'aqi_us': aqi_value})
AlertBracket ==
    Bracketed("_analyze_air_quality", alert_bracket(thresholds, aqi_value))

NextBrackets ==
    \/ ClassifyAqi
    \/ GetAqiCategory
    \/ AlertBracket

SpecBrackets == InitBrackets /\ [][NextBrackets]_vars

OnScale == aqi_value \in 0..AqiScaleMax

AllBracketed ==
    DOMAIN brackets =
        { "classify_aqi", "get_aqi_category", "_analyze_air_quality" }

\* The bracket table: category and the alert that goes with it.
BracketOf(v) ==
    IF v <= 50 THEN
        [ category |-> "Boa", alert |-> << >> ]
    ELSE IF v <= 100 THEN
        [ category |-> "Moderada",
          alert |-> << [ id |-> "aqi_moderate", level |-> "info" ] >> ]
    ELSE IF v <= 150 THEN
        [ category |-> "Insalubre para grupos sensiveis",
          alert |-> << [ id |-> "aqi_unhealthy_sensitive",
                         level |-> "warning" ] >> ]
    ELSE IF v <= 200 THEN
        [ category |-> "Insalubre",
          alert |-> << [ id |-> "aqi_unhealthy", level |-> "critical" ] >> ]
    ELSE IF v <= 300 THEN
        [ category |-> "Muito insalubre",
          alert |-> << [ id |-> "aqi_very_unhealthy",
                         level |-> "critical" ] >> ]
    ELSE
        [ category |-> "Perigosa",
          alert |-> << [ id |-> "aqi_hazardous", level |-> "emergency" ] >> ]

\* C30: for every integer AQI from 0 to 500, classify_aqi, get_aqi_category
\* and the alert evaluator (with the thresholds of the constructor) choose the
\* same bracket of the table 0-50 / 51-100 / 101-150 / 151-200 / 201-300 /
\* 301-500: the two categories are equal and the evaluator returns exactly
\* the alert of that bracket (none for 0-50).
C30_BracketingsAgree ==
    (OnScale /\ AllBracketed) =>
        /\ brackets["classify_aqi"] = << BracketOf(aqi_value).category >>
        /\ brackets["get_aqi_category"] = brackets["classify_aqi"]
        /\ brackets["_analyze_air_quality"] = BracketOf(aqi_value).alert

\* A boundary value, where a strict comparison would differ, bracketed by
\* all three.
C30_Witness ==
    /\ aqi_value = 300
    /\ AllBracketed
    /\ brackets["get_aqi_category"] = << "Muito insalubre" >>
    /\ brackets["_analyze_air_quality"]
           = << [ id |-> "aqi_very_unhealthy", level |-> "critical" ] >>

----------------------------------------------------------------------------
(* The analysis command line                                               *)

Flags == { "all", "alerts", "correlations", "reports", "clear_cache",
           "optimize_cache", "force", "save_results" }

\* parse_args: every flag is a store_true switch.
Args == [ Flags -> BOOLEAN ]

Analyses == { "alerts", "correlations", "reports" }

\* check_database: an error, or the record count of weather_data (0 when
\* the table is missing).
WeatherRecordCounts == { 0, 9, 10 }

DbStats ==
    { [ error |-> TRUE, weather_records |-> 0 ] }
      \cup { [ error |-> FALSE, weather_records |-> n ] :
               n \in WeatherRecordCounts }

\* main, after parse_args: --all switches on the three analyses, the cache
\* optimisation and the saving of results; with no analysis chosen, alerts
\* and reports are.
selected(a) ==
    LET b == IF a["all"]
             THEN [ f \in Flags |->
                      IF f \in Analyses \cup { "optimize_cache", "save_results" }
                      THEN TRUE ELSE a[f] ]
             ELSE a
    IN IF \E f \in Analyses : b[f]
       THEN b
       ELSE [ f \in Flags |-> IF f \in { "alerts", "reports" } THEN TRUE ELSE b[f] ]

some_succeeded(analyses) ==
    \E n \in DOMAIN analyses : analyses[n]

\* success_count == total_analyses
all_succeeded(analyses) ==
    \A n \in DOMAIN analyses : analyses[n]

\* run_comprehensive_analysis(args).  success: per analysis, whether its
\* function reports success; save_raises: whether writing the results file
\* raises.  Each analysis function catches its own exceptions.
run_comprehensive_analysis_args(b, db, success, save_raises) ==
    IF db.error \/ (db.weather_records < 10 /\ ~b["force"])
    THEN [ outcome |-> "returned", result |-> FALSE, steps |-> {},
           analyses |-> NoDict ]
    ELSE LET ran == { n \in Analyses : b[n] }
             analyses == [ n \in ran |-> success[n] ]
             steps == ran
                 \cup (IF b["clear_cache"] \/ b["optimize_cache"]
                       THEN { "optimize_cache" } ELSE {})
         IN IF b["save_results"] /\ save_raises
            THEN [ outcome |-> "raised", result |-> FALSE, steps |-> steps,
                   analyses |-> analyses ]
            ELSE [ outcome |-> "returned", result |-> all_succeeded(analyses),
                   steps |-> steps, analyses |-> analyses ]

\* main: exit code 0 for a True result, 1 for a False one and for any
\* exception.
main(a, db, success, save_raises) ==
    LET b == selected(a)
        r == run_comprehensive_analysis_args(b, db, success, save_raises)
    IN [ args |-> b, outcome |-> r.outcome, result |-> r.result,
         steps |-> r.steps, analyses |-> r.analyses,
         exit_code |-> IF r.outcome = "returned" /\ r.result THEN 0 ELSE 1 ]

InitCli ==
    /\ EvalIdle
    /\ TrendIdle
    /\ CorrIdle
    /\ called = {}
    /\ AnalysisIdle
    /\ RestIdle
    /\ BracketIdle
    /\ TaskIdle
    /\ SchedIdle
    /\ RaceIdle
    /\ WrapIdle
    /\ argv \in Args
    /\ db_stats \in DbStats
    /\ cli = NoDict

\* python climate_analyzer.py <argv>
Main ==
    /\ cli = NoDict
    /\ \E success \in [ Analyses -> BOOLEAN ], save_raises \in BOOLEAN :
         cli' = main(argv, db_stats, success, save_raises)
    /\ UNCHANGED << evalVars, trendVars, corrVars, called, analysisVars,
                    restVars, bracketVars, taskVars, schedVars, raceVars,
                    wrapVars, argv, db_stats >>

NextCli == Main

SpecCli == InitCli /\ [][NextCli]_vars

CliDone == cli # NoDict

NoneChosen == \A f \in Analyses \cup { "all" } : ~argv[f]

GateRefuses ==
    db_stats.error \/ (db_stats.weather_records < 10 /\ ~argv["force"])

AnalysesChosen == { n \in Analyses : cli.args[n] }

CliSelection ==
    /\ NoneChosen => AnalysesChosen = { "alerts", "reports" }
    /\ argv["all"] => AnalysesChosen = Analyses

CliRefusal ==
    GateRefuses => /\ cli.outcome = "returned"
                   /\ ~cli.result
                   /\ cli.exit_code = 1
                   /\ cli.steps = {}

CliRan ==
    ~GateRefuses => cli.steps \cap Analyses = AnalysesChosen

EveryAnalysisSucceeded ==
    \A n \in DOMAIN cli.analyses : cli.analyses[n] = TRUE

\* C29 as stated: past the database gate, the process exits with code 0
\* exactly when every analysis that ran reported success.
C29_ExitZeroIffAllSucceeded ==
    CliDone =>
        /\ CliSelection
        /\ CliRefusal
        /\ CliRan
        /\ ~GateRefuses =>
             (cli.exit_code = 0 <=> EveryAnalysisSucceeded)

\* C29: with none of --alerts, --correlations, --reports, --all the run
\* selects alerts and reports, with --all all three; when the database check
\* fails or weather_data has fewer than 10 records without --force the run
\* returns False (exit code 1) and runs nothing; otherwise it runs exactly the
\* selected analyses and, when run_comprehensive_analysis returns, it returns
\* True (exit code 0) iff each of them reported success; when writing the
\* results file raises, the exit code is 1 whatever the analyses reported.
C29_ReturnsTrueIffAllSucceeded ==
    CliDone =>
        /\ CliSelection
        /\ CliRefusal
        /\ CliRan
        /\ cli.exit_code = 0 <=> (cli.outcome = "returned" /\ cli.result)
        /\ (~GateRefuses /\ cli.outcome = "returned") =>
             (cli.result <=> EveryAnalysisSucceeded)
        /\ cli.outcome = "raised" =>
             (~GateRefuses /\ cli.args["save_results"] /\ cli.exit_code = 1)

\* No analysis flag given, enough data: alerts and reports ran, one of them
\* failed, and the run returned False.
C29_Witness ==
    /\ CliDone
    /\ NoneChosen
    /\ ~GateRefuses
    /\ cli.outcome = "returned"
    /\ cli.analyses = [ n \in { "alerts", "reports" } |-> n = "alerts" ]
    /\ cli.exit_code = 1

----------------------------------------------------------------------------
(* The scheduler's tasks                                                   *)

\* How subprocess.run ends: the child's return code (negative when a signal
\* killed it), the timeout, or another exception (the interpreter or the
\* script cannot be started).
ReturnCodes == { 0, 1, 2, 0 - 9 }

SubprocessOutcomes ==
    { [ exc |-> "none", returncode |-> c ] : c \in ReturnCodes }
      \cup { [ exc |-> e, returncode |-> 0 ] :
               e \in { "TimeoutExpired", "OSError" } }

\* What a task call leaves: the functions run, the returned value, and the
\* exception that left the call, if any.
TaskResult(fn, value) == [ ran |-> { fn }, result |-> value, exc |-> "none" ]

TaskRaised(fn, e) == [ ran |-> { fn }, result |-> FALSE, exc |-> e ]

\* run_data_collection: except subprocess.TimeoutExpired, except Exception.
run_data_collection(out) ==
    IF out.exc = "TimeoutExpired" THEN TaskResult("run_data_collection", FALSE)
    ELSE IF out.exc # "none" THEN TaskResult("run_data_collection", FALSE)
    ELSE TaskResult("run_data_collection", out.returncode = 0)

\* run_daily_analysis: except Exception.
run_daily_analysis(out) ==
    IF out.exc # "none" THEN TaskResult("run_daily_analysis", FALSE)
    ELSE TaskResult("run_daily_analysis", out.returncode = 0)

run_weekly_analysis_uncaught(out) ==
    IF out.exc = "TimeoutExpired" THEN TaskResult("run_weekly_analysis", FALSE)
    ELSE IF out.exc # "none" THEN TaskRaised("run_weekly_analysis", out.exc)
    ELSE TaskResult("run_weekly_analysis", out.returncode = 0)

\* run_weekly_analysis: except Exception.
run_weekly_analysis(out) ==
    IF out.exc # "none" THEN TaskResult("run_weekly_analysis", FALSE)
    ELSE TaskResult("run_weekly_analysis", out.returncode = 0)

\* run_alert_check, from the subprocess outcome: on return code 0 with the
\* critical line in stdout it notifies (_send_notification catches what the
\* channels raise) and returns True.
alert_check_task(out, marker, cfg, post_raises) ==
    IF out.exc # "none"
    THEN TaskResult("run_alert_check", FALSE)
    ELSE IF out.returncode = 0
    THEN [ ran |-> IF marker /\ send_notification(cfg, post_raises) # {}
                   THEN { "run_alert_check", "_send_notification" }
                   ELSE { "run_alert_check" },
           result |-> TRUE, exc |-> "none" ]
    ELSE TaskResult("run_alert_check", FALSE)

\* run_maintenance: the return code is not looked at; True unless the
\* subprocess call or the log rotation raises.
run_maintenance(out, rotation_raises) ==
    IF out.exc # "none" \/ rotation_raises
    THEN TaskResult("run_maintenance", FALSE)
    ELSE TaskResult("run_maintenance", TRUE)

TaskNames == { "data_collection", "daily_analysis", "weekly_analysis",
               "alert_check", "maintenance" }

\* Names handed to run_once: the --run-once choices and two others.
TaskInputs == TaskNames \cup { "status", "" }

\* run_once(task): task_map[task]() for a known name, else False.
run_once(task, out, marker, cfg, post_raises, rotation_raises) ==
    IF task = "data_collection" THEN run_data_collection(out)
    ELSE IF task = "daily_analysis" THEN run_daily_analysis(out)
    ELSE IF task = "weekly_analysis" THEN run_weekly_analysis(out)
    ELSE IF task = "alert_check"
    THEN alert_check_task(out, marker, cfg, post_raises)
    ELSE IF task = "maintenance" THEN run_maintenance(out, rotation_raises)
    ELSE [ ran |-> {}, result |-> FALSE, exc |-> "none" ]

InitTasks ==
    /\ EvalIdle
    /\ TrendIdle
    /\ CorrIdle
    /\ called = {}
    /\ AnalysisIdle
    /\ SystemIdle
    /\ config \in Configs
    /\ check = NoCheck
    /\ sent = {}
    /\ CacheIdle
    /\ BracketIdle
    /\ CliIdle
    /\ SchedIdle
    /\ RaceIdle
    /\ WrapIdle
    /\ last_run = NoDict

taskIdle == << evalVars, trendVars, corrVars, called, analysisVars,
               systemVars, notifyVars, cacheVars, bracketVars, cliVars,
               schedVars, raceVars, wrapVars >>

\* One call: via names how it was called, task the name given to run_once.
Ran(via, task, out, r) ==
    /\ last_run' = [ via |-> via, task |-> task, out |-> out, ran |-> r.ran,
                     result |-> r.result, exc |-> r.exc ]
    /\ UNCHANGED taskIdle

RunDataCollection ==
    \E out \in SubprocessOutcomes :
        Ran("direct", "data_collection", out, run_data_collection(out))

RunDailyAnalysis ==
    \E out \in SubprocessOutcomes :
        Ran("direct", "daily_analysis", out, run_daily_analysis(out))

RunWeeklyAnalysis ==
    \E out \in SubprocessOutcomes :
        Ran("direct", "weekly_analysis", out, run_weekly_analysis(out))

AlertCheckTask ==
    \E out \in SubprocessOutcomes, marker \in BOOLEAN, post_raises \in BOOLEAN :
        Ran("direct", "alert_check", out,
            alert_check_task(out, marker, config, post_raises))

RunOnce ==
    \E task \in TaskInputs, out \in SubprocessOutcomes, marker \in BOOLEAN,
       post_raises \in BOOLEAN, rotation_raises \in BOOLEAN :
        Ran("run_once", task, out,
            run_once(task, out, marker, config, post_raises, rotation_raises))

NextTasks ==
    \/ RunDataCollection
    \/ RunDailyAnalysis
    \/ RunWeeklyAnalysis
    \/ AlertCheckTask
    \/ RunOnce

SpecTasks == InitTasks /\ [][NextTasks]_vars

TaskRan == last_run # NoDict

SubprocessTasks == TaskNames \ { "maintenance" }

ExitedZero == last_run.out.exc = "none" /\ last_run.out.returncode = 0

TaskFunction(task) ==
    IF task = "alert_check" THEN "run_alert_check" ELSE "run_" \o task

\* C28: run_data_collection, run_daily_analysis, run_weekly_analysis and
\* run_alert_check, called directly or through run_once, return True exactly
\* when the subprocess completed with exit code 0 and return False on any
\* other exit code, a timeout or another exception, and no exception leaves
\* the call; run_once runs the function of a known task name and returns its
\* result, and for any other name runs nothing and returns False.
C28_TrueIffExitZero ==
    TaskRan =>
        /\ last_run.exc = "none"
        /\ last_run.task \in SubprocessTasks =>
             /\ last_run.result <=> ExitedZero
             /\ TaskFunction(last_run.task) \in last_run.ran
        /\ last_run.task = "maintenance" =>
             /\ "run_maintenance" \in last_run.ran
             /\ last_run.result => last_run.out.exc = "none"
        /\ last_run.task \notin TaskNames =>
             /\ last_run.via = "run_once"
             /\ last_run.ran = {}
             /\ ~last_run.result

\* run_once("weekly_analysis") whose subprocess could not be started:
\* False is returned, nothing is raised.
C28_Witness ==
    /\ TaskRan
    /\ last_run.via = "run_once"
    /\ last_run.task = "weekly_analysis"
    /\ last_run.out.exc = "OSError"
    /\ last_run.ran = { "run_weekly_analysis" }
    /\ ~last_run.result

----------------------------------------------------------------------------
(* The scheduler loop                                                      *)

\* Passes of the start() loop followed.
MaxMinutes == 2

\* Calls of stop() from outside start(): signals delivered, direct calls.
MaxStops == 2

\* The task functions setup_schedules hands to schedule.
JobNames == { "run_data_collection", "run_daily_analysis", "run_alert_check" }

\* AutomationScheduler.stop
stop(is_running, scheduled) ==
    IF is_running
    THEN [ running |-> FALSE, jobs |-> {} ]
    ELSE [ running |-> is_running, jobs |-> scheduled ]

\* AutomationScheduler(config_file): not running, the handlers of SIGINT
\* and SIGTERM installed, nothing scheduled.
InitSched ==
    /\ EvalIdle
    /\ TrendIdle
    /\ CorrIdle
    /\ called = {}
    /\ AnalysisIdle
    /\ RestIdle
    /\ BracketIdle
    /\ CliIdle
    /\ TaskIdle
    /\ RaceIdle
    /\ WrapIdle
    /\ running = FALSE
    /\ jobs = {}
    /\ loop = [ pc |-> "new", runnable |-> {}, minutes |-> 0 ]
    /\ trace = [ stops |-> 0, stopped |-> FALSE, after_stop |-> {},
                 passes_after_stop |-> 0, noop_changed |-> FALSE ]

schedIdle == << evalVars, trendVars, corrVars, called, analysisVars,
                restVars, bracketVars, cliVars, taskVars, raceVars,
                wrapVars >>

\* start(), up to the loop: setup_schedules registers the jobs the
\* configuration enables, then running = True.
Start ==
    /\ loop.pc = "new"
    /\ \E scheduled \in SUBSET JobNames : jobs' = scheduled
    /\ running' = TRUE
    /\ loop' = [ loop EXCEPT !.pc = "while" ]
    /\ UNCHANGED << schedIdle, trace >>

\* while self.running: schedule.run_pending() collects the jobs that are
\* due, sorted(...) of a generator over schedule.jobs, before running any.
While ==
    /\ loop.pc = "while"
    /\ IF running
       THEN /\ \E due \in SUBSET jobs :
                 loop' = [ loop EXCEPT !.pc = "run_pending", !.runnable = due ]
            /\ trace' = [ trace EXCEPT !.passes_after_stop =
                            IF trace.stopped THEN @ + 1 ELSE @ ]
       ELSE /\ loop' = [ loop EXCEPT !.pc = "finally" ]
            /\ UNCHANGED trace
    /\ UNCHANGED << schedIdle, running, jobs >>

\* run_pending runs the next job it collected.
RunJob ==
    /\ loop.pc = "run_pending"
    /\ \E job \in loop.runnable :
         /\ loop' = [ loop EXCEPT !.runnable = @ \ { job } ]
         /\ trace' = [ trace EXCEPT !.after_stop =
                         IF trace.stopped THEN @ \cup { job } ELSE @ ]
    /\ UNCHANGED << schedIdle, running, jobs >>

\* run_pending returns; time.sleep(60).
Sleep ==
    /\ loop.pc = "run_pending"
    /\ loop.runnable = {}
    /\ loop' = [ loop EXCEPT !.pc = "sleep" ]
    /\ UNCHANGED << schedIdle, running, jobs, trace >>

\* The sleep ends (a handled signal does not shorten it).
Wake ==
    /\ loop.pc = "sleep"
    /\ loop.minutes < MaxMinutes
    /\ loop' = [ loop EXCEPT !.pc = "while", !.minutes = @ + 1 ]
    /\ UNCHANGED << schedIdle, running, jobs, trace >>

\* What a call of stop() does to the scheduler and to the record of calls.
Stops(next_pc) ==
    LET r == stop(running, jobs) IN
    /\ running' = r.running
    /\ jobs' = r.jobs
    /\ loop' = [ loop EXCEPT !.pc = next_pc ]
    /\ trace' = [ trace EXCEPT
                    !.stopped = @ \/ running,
                    !.noop_changed =
                        @ \/ (~running /\ << r.running, r.jobs >>
                                              # << running, jobs >>) ]
    /\ UNCHANGED schedIdle

\* finally: self.stop()
Finally ==
    /\ loop.pc = "finally"
    /\ Stops("exited")

\* SIGINT or SIGTERM: _signal_handler calls stop() between two bytecodes of
\* whatever the main thread is doing, a job of run_pending included.
SignalHandler ==
    /\ trace.stops < MaxStops
    /\ LET r == stop(running, jobs) IN
         /\ running' = r.running
         /\ jobs' = r.jobs
         /\ trace' = [ trace EXCEPT
                         !.stops = @ + 1,
                         !.stopped = @ \/ running,
                         !.noop_changed =
                             @ \/ (~running /\ << r.running, r.jobs >>
                                                   # << running, jobs >>) ]
    /\ UNCHANGED << schedIdle, loop >>

NextSched ==
    \/ Start
    \/ While
    \/ RunJob
    \/ Sleep
    \/ Wake
    \/ Finally
    \/ SignalHandler

SpecSched == InitSched /\ [][NextSched]_vars

\* C27: once stop() has executed on a running scheduler, running is False
\* and no job is scheduled, the loop of start() begins no further pass and
\* no job is run any more, and a stop() on a stopped scheduler changes
\* nothing.
C27_NoJobAfterStop ==
    /\ trace.stopped =>
         /\ ~running
         /\ jobs = {}
         /\ trace.passes_after_stop = 0
         /\ trace.after_stop = {}
    /\ ~trace.noop_changed

----------------------------------------------------------------------------
(* Threads on the shared cache                                             *)

\* Seconds followed while threads run.
MaxRaceTime == 1

\* Calls each thread makes, one after the other.
MaxOps == 1

Threads == { 1, 2 }

\* What the wrapped function may return on an execution.
FuncResults == { "v1", "v2" }

\* ttl of the decorator, in seconds.
cached_ttl == 1

\* The calls a thread makes: the wrapper of a @cached function, and the
\* methods of SmartCache.
Ops == { "cached", "set", "get", "invalidate", "clear_all", "_cleanup_expired" }

lock_free_always(owner) == TRUE

\* RLock.acquire by another thread: the lock must be free.
lock_free(owner) == owner = 0

IdleThread ==
    [ pc |-> "idle", op |-> "", key |-> "", value |-> "", timestamp |-> 0,
      ttl |-> 0, to_memory |-> TRUE, disk_cache |-> TRUE, ret |-> None,
      ops |-> 0, executed |-> 0, expired_keys |-> {} ]

NoWriters == [ memory |-> NoDict, metadata |-> NoDict, disk |-> NoDict ]

InitThreads ==
    /\ EvalIdle
    /\ TrendIdle
    /\ CorrIdle
    /\ called = {}
    /\ AnalysisIdle
    /\ SystemIdle
    /\ NotifyIdle
    /\ BracketIdle
    /\ CliIdle
    /\ TaskIdle
    /\ SchedIdle
    /\ WrapIdle
    /\ now = 0
    /\ memory_cache = NoDict
    /\ cache_metadata = NoDict
    /\ disk = NoDict
    /\ stored = NoDict
    /\ got = NoGet
    /\ threads = [ t \in Threads |-> IdleThread ]
    /\ lock = 0
    /\ written_by = NoWriters

threadIdle == << evalVars, trendVars, corrVars, called, analysisVars,
                 systemVars, notifyVars, bracketVars, cliVars, taskVars,
                 schedVars, wrapVars, stored, got >>

\* The thread's record changes, the others' do not.
Moves(t, rec) == threads' = [ threads EXCEPT ![t] = rec ]

\* The set call a thread is in.
CallId(t) == << t, threads[t].ops >>

\* A second passes.
TickRace ==
    /\ now < MaxRaceTime
    /\ now' = now + 1
    /\ UNCHANGED << threadIdle, memory_cache, cache_metadata, disk, threads,
                    lock, written_by >>

\* A thread enters a call.  set takes its timestamp before it asks for the
\* lock.
Begin ==
    \E t \in Threads, op \in Ops, key \in CacheKeys :
        /\ threads[t].pc = "idle"
        /\ threads[t].ops < MaxOps
        /\ \/ /\ op \in { "cached", "get" }
              /\ Moves(t, [ threads[t] EXCEPT !.pc = "get", !.op = op,
                              !.key = key, !.ret = None, !.to_memory = TRUE,
                              !.disk_cache = TRUE ])
           \/ /\ op = "set"
              /\ \E value \in FuncResults, to_memory \in BOOLEAN,
                    disk_cache \in BOOLEAN :
                   Moves(t, [ threads[t] EXCEPT !.pc = "acquire", !.op = op,
                                !.key = key, !.value = value,
                                !.timestamp = now, !.ttl = cached_ttl,
                                !.to_memory = to_memory,
                                !.disk_cache = disk_cache, !.ret = None ])
           \/ /\ op \in { "invalidate", "clear_all", "_cleanup_expired" }
              /\ Moves(t, [ threads[t] EXCEPT !.pc = "acquire", !.op = op,
                              !.key = key, !.ret = None ])
        /\ UNCHANGED << threadIdle, now, memory_cache, cache_metadata, disk,
                        lock, written_by >>

\* Who wrote what get leaves: an entry promoted from disk is the file's.
writers_after_get(c) ==
    [ memory |-> [ k \in DOMAIN c.memory_cache |->
                     IF k \in DOMAIN written_by.memory
                     THEN written_by.memory[k] ELSE written_by.disk[k] ],
      metadata |-> [ k \in DOMAIN c.cache_metadata |->
                       IF k \in DOMAIN written_by.metadata
                       THEN written_by.metadata[k] ELSE written_by.disk[k] ],
      disk |-> [ k \in DOMAIN c.disk |-> written_by.disk[k] ] ]

\* get(key), the whole of it under the lock.  In the wrapper a value other
\* than None is returned at once.
GetStep ==
    \E t \in Threads :
        /\ threads[t].pc = "get"
        /\ lock_free(lock)
        /\ LET r == get(Cache, threads[t].key, TRUE, now) IN
             /\ Becomes(r.cache)
             /\ written_by' = writers_after_get(r.cache)
             /\ IF threads[t].op = "get" \/ ~IsNone(r.value)
                THEN Moves(t, [ IdleThread EXCEPT
                                  !.op = threads[t].op, !.ret = r.value,
                                  !.ops = threads[t].ops + 1,
                                  !.executed = threads[t].executed ])
                ELSE Moves(t, [ threads[t] EXCEPT !.pc = "func" ])
        /\ UNCHANGED << threadIdle, now, lock >>

\* The wrapper executes the function and calls set, which takes its
\* timestamp.
Func ==
    \E t \in Threads, result \in FuncResults :
        /\ threads[t].pc = "func"
        /\ Moves(t, [ threads[t] EXCEPT !.pc = "acquire", !.value = result,
                        !.timestamp = now, !.ttl = cached_ttl,
                        !.executed = @ + 1 ])
        /\ UNCHANGED << threadIdle, now, memory_cache, cache_metadata, disk,
                        lock, written_by >>

\* with self.lock
Acquire ==
    \E t \in Threads :
        /\ threads[t].pc = "acquire"
        /\ lock_free(lock)
        /\ lock' = t
        /\ Moves(t, [ threads[t] EXCEPT
                        !.pc = IF threads[t].op \in { "cached", "set" }
                               THEN "write_memory" ELSE "scan",
                        !.expired_keys = {} ])
        /\ UNCHANGED << threadIdle, now, memory_cache, cache_metadata, disk,
                        written_by >>

\* set: self.memory_cache[key] = value
WriteMemory ==
    \E t \in Threads :
        LET th == threads[t] IN
        /\ th.pc = "write_memory"
        /\ IF th.to_memory
           THEN /\ memory_cache' = With(memory_cache, th.key, th.value)
                /\ written_by' = [ written_by EXCEPT
                                     !.memory = With(@, th.key, CallId(t)) ]
           ELSE UNCHANGED << memory_cache, written_by >>
        /\ Moves(t, [ th EXCEPT !.pc = "write_metadata" ])
        /\ UNCHANGED << threadIdle, now, cache_metadata, disk, lock >>

\* set: self.cache_metadata[key] = {timestamp, ttl}
WriteMetadata ==
    \E t \in Threads :
        LET th == threads[t] IN
        /\ th.pc = "write_metadata"
        /\ IF th.to_memory
           THEN /\ cache_metadata' =
                       With(cache_metadata, th.key,
                            [ timestamp |-> th.timestamp, ttl |-> th.ttl ])
                /\ written_by' = [ written_by EXCEPT
                                     !.metadata = With(@, th.key, CallId(t)) ]
           ELSE UNCHANGED << cache_metadata, written_by >>
        /\ Moves(t, [ th EXCEPT !.pc = "write_disk" ])
        /\ UNCHANGED << threadIdle, now, memory_cache, disk, lock >>

\* set: pickle.dump of value, timestamp and ttl into <key>.cache
WriteDisk ==
    \E t \in Threads :
        LET th == threads[t] IN
        /\ th.pc = "write_disk"
        /\ IF th.disk_cache
           THEN /\ disk' = With(disk, th.key,
                                [ value |-> th.value,
                                  timestamp |-> th.timestamp, ttl |-> th.ttl ])
                /\ written_by' = [ written_by EXCEPT
                                     !.disk = With(@, th.key, CallId(t)) ]
           ELSE UNCHANGED << disk, written_by >>
        /\ Moves(t, [ th EXCEPT !.pc = "release",
                        !.ret = IF th.op = "cached" THEN Some(th.value)
                                ELSE None ])
        /\ UNCHANGED << threadIdle, now, memory_cache, cache_metadata, lock >>

\* The keys a removing call is after in the memory tier.
MemoryTargets(th) ==
    IF th.op = "invalidate" THEN { th.key }
    ELSE IF th.op = "clear_all" THEN DOMAIN memory_cache \cup DOMAIN cache_metadata
    ELSE th.expired_keys

\* The files a removing call is after.
DiskTargets(th) ==
    IF th.op = "invalidate" THEN { th.key }
    ELSE IF th.op = "clear_all" THEN DOMAIN disk
    ELSE { k \in DOMAIN disk : is_expired(now, disk[k].timestamp, disk[k].ttl) }

Remove(d, ks) == [ k \in DOMAIN d \ ks |-> d[k] ]

\* _cleanup_expired collects expired_keys from cache_metadata; invalidate
\* and clear_all have nothing to collect.
Scan ==
    \E t \in Threads :
        LET th == threads[t] IN
        /\ th.pc = "scan"
        /\ Moves(t, [ th EXCEPT !.pc = "pop_memory",
                        !.expired_keys =
                            IF th.op = "_cleanup_expired"
                            THEN { k \in DOMAIN cache_metadata :
                                     is_expired(now, cache_metadata[k].timestamp,
                                                cache_metadata[k].ttl) }
                            ELSE {} ])
        /\ UNCHANGED << threadIdle, now, memory_cache, cache_metadata, disk,
                        lock, written_by >>

\* memory_cache.pop(key, None) / memory_cache.clear()
PopMemory ==
    \E t \in Threads :
        LET th == threads[t] IN
        /\ th.pc = "pop_memory"
        /\ memory_cache' = Remove(memory_cache, MemoryTargets(th))
        /\ written_by' = [ written_by EXCEPT
                             !.memory = Remove(@, MemoryTargets(th)) ]
        /\ Moves(t, [ th EXCEPT !.pc = "pop_metadata" ])
        /\ UNCHANGED << threadIdle, now, cache_metadata, disk, lock >>

\* cache_metadata.pop(key, None) / cache_metadata.clear()
PopMetadata ==
    \E t \in Threads :
        LET th == threads[t] IN
        /\ th.pc = "pop_metadata"
        /\ cache_metadata' = Remove(cache_metadata, MemoryTargets(th))
        /\ written_by' = [ written_by EXCEPT
                             !.metadata = Remove(@, MemoryTargets(th)) ]
        /\ Moves(t, [ th EXCEPT !.pc = "unlink" ])
        /\ UNCHANGED << threadIdle, now, memory_cache, disk, lock >>

\* cache_file.unlink()
Unlink ==
    \E t \in Threads :
        LET th == threads[t] IN
        /\ th.pc = "unlink"
        /\ disk' = Remove(disk, DiskTargets(th))
        /\ written_by' = [ written_by EXCEPT
                             !.disk = Remove(@, DiskTargets(th)) ]
        /\ Moves(t, [ th EXCEPT !.pc = "release" ])
        /\ UNCHANGED << threadIdle, now, memory_cache, cache_metadata, lock >>

\* The with block ends: the lock is released and the call returns.
Release ==
    \E t \in Threads :
        /\ threads[t].pc = "release"
        /\ lock' = 0
        /\ Moves(t, [ IdleThread EXCEPT
                        !.op = threads[t].op, !.ret = threads[t].ret,
                        !.ops = threads[t].ops + 1,
                        !.executed = threads[t].executed ])
        /\ UNCHANGED << threadIdle, now, memory_cache, cache_metadata, disk,
                        written_by >>

NextThreads ==
    \/ TickRace
    \/ Begin
    \/ GetStep
    \/ Func
    \/ Acquire
    \/ WriteMemory
    \/ WriteMetadata
    \/ WriteDisk
    \/ Scan
    \/ PopMemory
    \/ PopMetadata
    \/ Unlink
    \/ Release

SpecThreads == InitThreads /\ [][NextThreads]_vars

InLockedSection ==
    { "write_memory", "write_metadata", "write_disk", "scan", "pop_memory",
      "pop_metadata", "unlink", "release" }

\* Both threads have returned from the wrapper of the @cached function.
BothReturned ==
    \A t \in Threads :
        /\ threads[t].pc = "idle"
        /\ threads[t].op = "cached"
        /\ threads[t].ops > 0

\* The lock is held by exactly the thread inside a locked section, which
\* can always take its next step: no waiting thread is stuck.
NoDeadlock ==
    \A t \in Threads : threads[t].pc \in InLockedSection <=> lock = t

\* An entry in memory has the metadata the same set call wrote.
NoPartialEntry ==
    lock = 0 =>
        \A k \in DOMAIN memory_cache :
            /\ k \in DOMAIN cache_metadata
            /\ written_by.memory[k] = written_by.metadata[k]

\* C21: two threads calling the same @cached function with the same
\* arguments: the function may be executed by both; no thread waits for a
\* lock whose holder cannot move; whenever the lock is free an entry in
\* memory has its value and its metadata from one and the same set call;
\* each caller that has returned got a value the function computed or a
\* caller stored; and once both have returned the cache holds the entry of
\* that key.
C21_RaceTolerated ==
    /\ NoDeadlock
    /\ NoPartialEntry
    /\ \A t \in Threads :
           (threads[t].pc = "idle" /\ threads[t].op = "cached"
                /\ threads[t].ops > 0)
               => \E v \in FuncResults : threads[t].ret = Some(v)
    /\ BothReturned =>
           \A k \in CacheKeys :
               /\ k \in DOMAIN memory_cache
               /\ k \in DOMAIN cache_metadata
               /\ memory_cache[k] \in FuncResults

\* Both threads missed, both executed the function with different results,
\* and the entry left is the one of the thread that wrote last.
C21_Witness ==
    /\ BothReturned
    /\ \A t \in Threads : threads[t].executed = 1
    /\ threads[1].ret = Some("v1")
    /\ threads[2].ret = Some("v2")
    /\ memory_cache["k1"] = "v1"
    /\ written_by.memory["k1"] = << 1, 0 >>
    /\ written_by.metadata["k1"] = << 1, 0 >>
    /\ disk["k1"].value = "v1"

----------------------------------------------------------------------------
(* The @cached decorator                                                   *)

\* Seconds followed.
MaxWrapTime == 2

\* The decorated functions: the two methods of DatabaseCache, and a
\* function of no arguments.
Decorated ==
    { [ name |-> "get_latest_data", key_prefix |-> "db_" ],
      [ name |-> "get_database_stats", key_prefix |-> "db_stats_" ],
      [ name |-> "f", key_prefix |-> "" ] }

\* The calls made: positional arguments and sorted keyword items, each by
\* its repr.
Signatures ==
    { [ func |-> [ name |-> "get_latest_data", key_prefix |-> "db_" ],
        args |-> << "self" >>, kwargs |-> << >> ],
      [ func |-> [ name |-> "get_database_stats", key_prefix |-> "db_stats_" ],
        args |-> << "self" >>, kwargs |-> << >> ],
      [ func |-> [ name |-> "f", key_prefix |-> "" ],
        args |-> << >>, kwargs |-> << >> ] }

\* What a wrapped function may return: None, the empty dict of a failed
\* query, a row.
Results == { "None", "{}", "row" }

\* str(args) of a tuple and str(sorted(kwargs.items())).
str_args(args) ==
    IF Len(args) = 0 THEN "()"
    ELSE IF Len(args) = 1 THEN "(" \o args[1] \o ",)"
    ELSE "(" \o args[1] \o ", " \o args[2] \o ")"

str_items(kwargs) ==
    IF Len(kwargs) = 0 THEN "[]" ELSE "[" \o kwargs[1] \o "]"

\* _generate_key: the digest of "<func_name>:<args><kwargs>"; the digest is
\* taken to be one-to-one and stands as the string it digests.
generate_key(func_name, args, kwargs) ==
    func_name \o ":" \o str_args(args) \o str_items(kwargs)

\* The key the wrapper uses for a call.
cache_key(sig) ==
    generate_key(sig.func.key_prefix \o sig.func.name, sig.args, sig.kwargs)

WrapKeys == { cache_key(sig) : sig \in Signatures }

\* Variant: a falsy cached value counts as a miss.
wrapper_truthy(c, sig, result, t_now) ==
    LET key == cache_key(sig)
        r == get(c, key, TRUE, t_now)
    IN  IF ~IsNone(r.value) /\ Val(r.value) \notin { "None", "{}" }
        THEN [ ret |-> Val(r.value), executed |-> FALSE, cache |-> r.cache ]
        ELSE [ ret |-> result, executed |-> TRUE,
               cache |-> set(r.cache, key, result, Some(cached_ttl), TRUE, TRUE,
                             t_now) ]

\* wrapper(*args, **kwargs) at time t_now, result being what the function
\* returns if it is executed: the value returned, whether the function was
\* executed, and the cache left.
wrapper(c, sig, result, t_now) ==
    LET key == cache_key(sig)
        r == get(c, key, TRUE, t_now)
    IN  IF ~IsNone(r.value) /\ Val(r.value) # "None"
        THEN [ ret |-> Val(r.value), executed |-> FALSE, cache |-> r.cache ]
        ELSE [ ret |-> result, executed |-> TRUE,
               cache |-> set(r.cache, key, result, Some(cached_ttl), TRUE, TRUE,
                             t_now) ]

\* Variant: every entry of the function goes.
cache_clear_every_call(c, func) ==
    LET gone == { k \in WrapKeys :
                    \E sig \in Signatures : sig.func = func /\ k = cache_key(sig) }
    IN Tiers(Remove(c.memory_cache, gone), Remove(c.cache_metadata, gone),
             Remove(c.disk, gone))

\* wrapper.cache_clear()
cache_clear(c, func) ==
    invalidate(c, generate_key(func.key_prefix \o func.name, << >>, << >>))

\* get_stats(): the entry counts.
get_stats(c) ==
    [ memory_entries |-> Cardinality(DOMAIN c.memory_cache),
      disk_entries |-> Cardinality(DOMAIN c.disk) ]

InitWrap ==
    /\ EvalIdle
    /\ TrendIdle
    /\ CorrIdle
    /\ called = {}
    /\ AnalysisIdle
    /\ SystemIdle
    /\ NotifyIdle
    /\ BracketIdle
    /\ CliIdle
    /\ TaskIdle
    /\ SchedIdle
    /\ RaceIdle
    /\ now = 0
    /\ memory_cache = NoDict
    /\ cache_metadata = NoDict
    /\ disk = NoDict
    /\ stored = NoDict
    /\ got = NoGet
    /\ calls = [ op |-> "", key |-> "", ret |-> "", executed |-> FALSE ]

wrapIdle == << evalVars, trendVars, corrVars, called, analysisVars,
               systemVars, notifyVars, bracketVars, cliVars, taskVars,
               schedVars, raceVars, got >>

\* A second passes.
TickWrap ==
    /\ now < MaxWrapTime
    /\ now' = now + 1
    /\ UNCHANGED << wrapIdle, memory_cache, cache_metadata, disk, stored,
                    calls >>

\* A call of a decorated function.
WrapperCall ==
    \E sig \in Signatures, result \in Results :
        LET w == wrapper(Cache, sig, result, now) IN
        /\ Becomes(w.cache)
        /\ stored' = IF w.executed
                     THEN With(stored, cache_key(sig),
                               [ value |-> result, timestamp |-> now,
                                 ttl |-> cached_ttl ])
                     ELSE stored
        /\ calls' = [ op |-> "call", key |-> cache_key(sig), ret |-> w.ret,
                      executed |-> w.executed ]
        /\ UNCHANGED << wrapIdle, now >>

\* wrapper.cache_clear() of a decorated function.
CacheClear ==
    \E func \in Decorated :
        LET key == generate_key(func.key_prefix \o func.name, << >>, << >>) IN
        /\ Becomes(cache_clear(Cache, func))
        /\ stored' = Without(stored, key)
        /\ calls' = [ op |-> "cache_clear", key |-> key, ret |-> "",
                      executed |-> FALSE ]
        /\ UNCHANGED << wrapIdle, now >>

\* invalidate(key)
InvalidateKey ==
    \E key \in WrapKeys :
        /\ Becomes(invalidate(Cache, key))
        /\ stored' = Without(stored, key)
        /\ calls' = [ op |-> "invalidate", key |-> key, ret |-> "",
                      executed |-> FALSE ]
        /\ UNCHANGED << wrapIdle, now >>

\* clear_all()
ClearAllKeys ==
    /\ Becomes(clear_all(Cache))
    /\ stored' = NoDict
    /\ calls' = [ op |-> "clear_all", key |-> "", ret |-> "",
                  executed |-> FALSE ]
    /\ UNCHANGED << wrapIdle, now >>

NextWrap ==
    \/ TickWrap
    \/ WrapperCall
    \/ CacheClear
    \/ InvalidateKey
    \/ ClearAllKeys

SpecWrap == InitWrap /\ [][NextWrap]_vars

\* The signature a key belongs to.
SigOf(key) == CHOOSE sig \in Signatures : cache_key(sig) = key

\* C25: for the latest result the function returned for a signature, with no
\* invalidate, cache_clear or clear_all of its key since: if it was None, the
\* next call executes the function again; if it was anything else, the empty
\* dict included, the next call returns it without executing the function as
\* long as the TTL has not expired, and executes the function once it has.
C25_NoneNeverServed ==
    \A key \in DOMAIN stored :
        \A result \in Results :
            LET s == stored[key]
                w == wrapper(Cache, SigOf(key), result, now)
            IN  IF s.value = "None" \/ now > s.timestamp + s.ttl
                THEN w.executed /\ w.ret = result
                ELSE ~w.executed /\ w.ret = s.value

\* A call has just been served the empty dict an earlier call stored.
C25_Witness ==
    /\ calls.op = "call"
    /\ ~calls.executed
    /\ calls.ret = "{}"
    /\ calls.key \in DOMAIN stored
    /\ stored[calls.key].value = "{}"
    /\ now = stored[calls.key].timestamp + cached_ttl

\* What the tiers hold for a key.
Entry(c, key) ==
    [ memory |-> IF key \in DOMAIN c.memory_cache
                 THEN << c.memory_cache[key] >> ELSE << >>,
      metadata |-> IF key \in DOMAIN c.cache_metadata
                   THEN << c.cache_metadata[key] >> ELSE << >>,
      disk |-> IF key \in DOMAIN c.disk THEN << c.disk[key] >> ELSE << >> ]

NoEntry == [ memory |-> << >>, metadata |-> << >>, disk |-> << >> ]

\* The key of the call without arguments.
EmptyCallKey(func) ==
    generate_key(func.key_prefix \o func.name, << >>, << >>)

\* C26: in every state, cache_clear() of a decorated function leaves no
\* entry under the key of that function called without arguments, and leaves
\* the entry of every other key, those of the method calls (self in the
\* arguments) included, as it was, so that a live entry is still served
\* without executing the function.
C26_ClearsOnlyEmptyCall ==
    \A func \in Decorated :
        LET after == cache_clear(Cache, func) IN
        /\ Entry(after, EmptyCallKey(func)) = NoEntry
        /\ \A sig \in Signatures :
               cache_key(sig) # EmptyCallKey(func) =>
                   /\ Entry(after, cache_key(sig)) = Entry(Cache, cache_key(sig))
                   /\ \A result \in Results :
                          wrapper(after, sig, result, now).executed
                              = wrapper(Cache, sig, result, now).executed

\* cache_clear() of get_latest_data has just run and the entry of
\* get_latest_data(self) is still in both tiers.
C26_Witness ==
    /\ calls.op = "cache_clear"
    /\ calls.key = "db_get_latest_data:()[]"
    /\ "db_get_latest_data:(self,)[]" \in DOMAIN memory_cache
    /\ "db_get_latest_data:(self,)[]" \in DOMAIN disk
    /\ \A result \in Results :
           ~wrapper(Cache, SigOf("db_get_latest_data:(self,)[]"), result,
                    now).executed

\* C23: in every state, invalidate(key) leaves the key in neither tier, so
\* that get(key) returns None, and leaves every other key's entry as it was;
\* clear_all() leaves no entry, so that get returns None for every key and
\* get_stats reports 0 memory and 0 disk entries.
C23_InvalidateAndClearAll ==
    /\ \A key \in WrapKeys :
           LET after == invalidate(Cache, key) IN
           /\ Entry(after, key) = NoEntry
           /\ \A memory_first \in BOOLEAN :
                  get(after, key, memory_first, now).value = None
           /\ \A other \in WrapKeys \ { key } :
                  Entry(after, other) = Entry(Cache, other)
    /\ LET cleared == clear_all(Cache) IN
           /\ \A key \in WrapKeys, memory_first \in BOOLEAN :
                  get(cleared, key, memory_first, now).value = None
           /\ get_stats(cleared).memory_entries = 0
           /\ get_stats(cleared).disk_entries = 0

\* invalidate(key) has just removed one of two live entries.
C23_Witness ==
    /\ calls.op = "invalidate"
    /\ calls.key = "db_get_latest_data:(self,)[]"
    /\ Entry(Cache, calls.key) = NoEntry
    /\ "db_stats_get_database_stats:(self,)[]" \in DOMAIN memory_cache
    /\ "db_stats_get_database_stats:(self,)[]" \in DOMAIN disk
    /\ get_stats(Cache) = [ memory_entries |-> 1, disk_entries |-> 1 ]

====
